---- MODULE Spec2Model ----
(***************************************************************************)
(* Alert-delivery subsystem of the FireWatch backend:                      *)
(*   backend/services/email/sender.py   EmailSender                        *)
(*   backend/services/email/tracker.py  DeliveryTracker                    *)
(*   backend/services/email/retry.py    RetryHandler                       *)
(*   backend/services/email/models.py   the three tables                   *)
(* Time is counted in whole hours of UTC wall-clock time.  A nullable      *)
(* column or optional value is None (the empty tuple) or Some(v).          *)
(***************************************************************************)
EXTENDS Integers, Sequences, FiniteSets, TLC

\* ------------------------------------------------------------------ bounds
\* last hour the clock reaches
MaxHour == 25
\* number of direct send_immediate_alert calls made by the callers
MaxCalls == 2
\* number of process_risk_alerts calls made by the batch caller
MaxBatches == 2
\* number of provider webhook events delivered
MaxWebhooks == 1
\* number of runs of the retry_failed job
MaxSweeps == 1
\* number of runs of the digest jobs
MaxDigests == 2
MaxStarts == 2
MaxFires == 2

\* ------------------------------------------------------- program constants
StartHour == 21
HoursPerDay == 24
max_retries == 3
DefaultDedupWindowHours == 24
TestDedupWindowHours == 1
DefaultRiskThreshold == 70
\* timedelta(days=7) of the weekly gate, in days
DaysPerWeek == 7
\* RetryHandler's max_delay of 60.0 s, in tenths of a second
DefaultMaxDelay == 600
HighScore == 70
MedScore == 50

None == << >>
Some(v) == << v >>
Val(o) == o[1]

Procs == {1, 2}
Users == {1, 2}
AreaIds == {1, 2}
Scores == {55, 65, 75}
UserEmails == {None}

VARIABLES
    nhooks,              \* webhook events handled so far
    now,                 \* datetime.utcnow(), in hours
    dedup_window_hours,  \* DeliveryTracker.dedup_window_hours
    prefs,               \* table user_alert_preferences
    areas,               \* table user_monitored_areas
    ledger,              \* table alert_activity, in id order
    sent_messages,       \* messages handed to provider.send, in order
    ncalls,              \* calls and requests the callers have started
    proc,                \* the callers' positions and local variables
    batch,               \* the process_risk_alerts caller
    sweep,               \* the scheduler's retry_failed job
    digest,              \* the scheduler's digest jobs
    notification_preferences,  \* table notification_preferences
    gate,                \* the last evaluation of should_send_alert
    scheduler            \* the DigestScheduler and the executions of its jobs

vars == << nhooks, now, dedup_window_hours, prefs, areas, ledger, sent_messages,
           ncalls, proc, batch, sweep, digest, notification_preferences,
           gate, scheduler >>

\* ------------------------------------------------------------ sender.py
\* risk bucket of _event_signature
Bucket(risk_score) ==
    IF risk_score >= HighScore THEN "high"
    ELSE IF risk_score >= MedScore THEN "med" ELSE "low"

\* the signature taken of the score itself, not of its bucket
Event_signature_of_score(area_id, risk_score, date_str) ==
    << area_id, risk_score, date_str >>

\* sha256 of "area:bucket:date", 32 hex digits: one value per distinct raw
\* string (collisions of the 128-bit digest are not modelled)
Event_signature(area_id, risk_score, date_str) ==
    << area_id, Bucket(risk_score), date_str >>

\* datetime.utcnow().strftime("%Y-%m-%d"): the UTC calendar day
DateStr(t) == t \div HoursPerDay

\* --------------------------------------------------------------- tables
\* a row of user_alert_preferences
PrefRow(id, user_id, frequency, risk_threshold, is_paused, email) ==
    [id |-> id, user_id |-> user_id, frequency |-> frequency,
     risk_threshold |-> risk_threshold, is_paused |-> is_paused,
     email |-> email]

\* a row of user_monitored_areas
AreaRow(id, user_id, area_name) ==
    [id |-> id, user_id |-> user_id, area_name |-> area_name]

\* a row of alert_activity with the column defaults of the table:
\* retry_count 0 unless given, created_at and updated_at the insert time
AlertActivity(id, user_id, area_id, event_signature, alert_type, risk_score, provider_message_id, error_message, retry_count, delivered_at, t) ==
    [id |-> id, user_id |-> user_id, area_id |-> area_id,
     event_signature |-> event_signature, alert_type |-> alert_type,
     risk_score |-> risk_score, provider_message_id |-> provider_message_id,
     error_message |-> error_message, retry_count |-> retry_count,
     delivered_at |-> delivered_at, created_at |-> t, updated_at |-> t]

\* the table without its unique constraint
InsertUnchecked(tbl, row) == [raised |-> FALSE, table |-> Append(tbl, row)]

\* UniqueConstraint("user_id", "event_signature"): the pair is taken
UniqueViolation(tbl, row) ==
    \E i \in DOMAIN tbl :
        /\ tbl[i].user_id = row.user_id
        /\ tbl[i].event_signature = row.event_signature

\* session.add(row); session.commit(): the row is stored unless the unique
\* constraint rejects it, and then the commit raises and nothing is stored
Insert(tbl, row) ==
    IF UniqueViolation(tbl, row)
    THEN [raised |-> TRUE, table |-> tbl]
    ELSE [raised |-> FALSE, table |-> Append(tbl, row)]

\* ------------------------------------------------------------ tracker.py
\* the query of is_duplicate with the cutoff itself left out of the window
DuplicateRowsAfterCutoff(tbl, user_id, event_signature, t, window) ==
    LET cutoff == t - window
    IN { i \in DOMAIN tbl :
            /\ tbl[i].user_id = user_id
            /\ tbl[i].event_signature = event_signature
            /\ tbl[i].created_at > cutoff }

\* rows the query of is_duplicate selects
DuplicateRows(tbl, user_id, event_signature, t, window) ==
    LET cutoff == t - window
    IN { i \in DOMAIN tbl :
            /\ tbl[i].user_id = user_id
            /\ tbl[i].event_signature = event_signature
            /\ tbl[i].created_at >= cutoff }

\* is_duplicate counting only the rows of accepted sends
Is_duplicate_of_sent(tbl, user_id, event_signature, t, window) ==
    \E i \in DuplicateRows(tbl, user_id, event_signature, t, window) :
        tbl[i].provider_message_id # None

Is_duplicate(tbl, user_id, event_signature, t, window) ==
    DuplicateRows(tbl, user_id, event_signature, t, window) # {}

Record_send(tbl, user_id, event_signature, provider_message_id, area_id, alert_type, risk_score, t) ==
    Insert(tbl, AlertActivity(Len(tbl) + 1, user_id, Some(area_id),
                              event_signature, alert_type, Some(risk_score),
                              Some(provider_message_id), None, 0, Some(t), t))

Record_failure(tbl, user_id, event_signature, error_message, retry_count, area_id, alert_type, risk_score, t) ==
    Insert(tbl, AlertActivity(Len(tbl) + 1, user_id, Some(area_id),
                              event_signature, alert_type, Some(risk_score),
                              None, Some(error_message), retry_count, None, t))

\* .filter(provider_message_id == id).first(): the matching row of lowest
\* id, 0 without one
FirstByMessageId(tbl, provider_message_id) ==
    LET hits == { i \in DOMAIN tbl :
                    tbl[i].provider_message_id = Some(provider_message_id) }
    IN IF hits = {} THEN 0 ELSE CHOOSE i \in hits : \A j \in hits : i <= j

\* an UPDATE that stamps created_at as well as updated_at
TouchCreated(old, new, t) ==
    IF new = old THEN old ELSE [new EXCEPT !.updated_at = t, !.created_at = t]

\* the onupdate default of updated_at fires when the UPDATE changes a column
Touch(old, new, t) == IF new = old THEN old ELSE [new EXCEPT !.updated_at = t]

\* mark_delivered without the line that clears error_message
Mark_delivered_keeping_error(tbl, provider_message_id, t) ==
    LET i == FirstByMessageId(tbl, provider_message_id)
    IN IF i = 0 THEN [found |-> FALSE, table |-> tbl]
       ELSE [found |-> TRUE,
             table |-> [tbl EXCEPT ![i] =
                          Touch(@, [@ EXCEPT !.delivered_at = Some(t)], t)]]

Mark_delivered(tbl, provider_message_id, t) ==
    LET i == FirstByMessageId(tbl, provider_message_id)
    IN IF i = 0 THEN [found |-> FALSE, table |-> tbl]
       ELSE [found |-> TRUE,
             table |-> [tbl EXCEPT ![i] =
                          Touch(@, [@ EXCEPT !.delivered_at = Some(t),
                                             !.error_message = None], t)]]

\* mark_failed that also withdraws the row's delivered_at
Mark_failed_clearing_delivery(tbl, provider_message_id, error_message, t) ==
    LET i == FirstByMessageId(tbl, provider_message_id)
    IN IF i = 0 THEN [found |-> FALSE, table |-> tbl]
       ELSE [found |-> TRUE,
             table |-> [tbl EXCEPT ![i] =
                          Touch(@, [@ EXCEPT
                                      !.error_message = Some(error_message),
                                      !.retry_count = @ + 1,
                                      !.delivered_at = None], t)]]

Mark_failed(tbl, provider_message_id, error_message, t) ==
    LET i == FirstByMessageId(tbl, provider_message_id)
    IN IF i = 0 THEN [found |-> FALSE, table |-> tbl]
       ELSE [found |-> TRUE,
             table |-> [tbl EXCEPT ![i] =
                          Touch(@, [@ EXCEPT
                                      !.error_message = Some(error_message),
                                      !.retry_count = @ + 1], t)]]

\* the query of get_failed_alerts without its provider_message_id filter
Get_failed_alerts_of_any_id(tbl, max_retry_count) ==
    { i \in DOMAIN tbl :
        /\ tbl[i].error_message # None
        /\ tbl[i].retry_count < max_retry_count }

\* get_failed_alerts: the ids of the rows the query selects
Get_failed_alerts(tbl, max_retry_count) ==
    { i \in DOMAIN tbl :
        /\ tbl[i].provider_message_id = None
        /\ tbl[i].error_message # None
        /\ tbl[i].retry_count < max_retry_count }

\* ----------------------------------------------------- provider.py, retry.py
\* SendResult
SendResult(success, provider_message_id, error_message) ==
    [success |-> success, provider_message_id |-> provider_message_id,
     error_message |-> error_message]

\* what one provider.send may answer; n is the number of messages the
\* provider has been handed, this one included
ProviderSend(reply, n) ==
    IF reply = "ok" THEN SendResult(TRUE, Some(<< "msg", n >>), None)
    ELSE SendResult(FALSE, None, Some("SMTP error"))

\* how the provider answers the attempts of one send_with_retry: it is up,
\* it is down, or it fails twice and then accepts
ProviderBehaviours ==
    { [i \in 1 .. max_retries + 1 |-> "ok"],
      [i \in 1 .. max_retries + 1 |-> "fail"],
      [i \in 1 .. max_retries + 1 |-> IF i <= 2 THEN "fail" ELSE "ok"] }

\* the loop of send_with_retry of a RetryHandler(max_retries =
\* handler_max_retries) from attempt `attempt` on: the number of send_fn
\* invocations made, the result returned and the attempts after which the
\* loop has slept
RECURSIVE RetryLoop(_, _, _, _, _, _)
RetryLoop(handler_max_retries, replies, attempt, made, nsent, slept) ==
    LET result == ProviderSend(replies[attempt + 1], nsent + 1)
    IN IF result.success
       THEN [invocations |-> made + 1, result |-> result, slept |-> slept]
       ELSE IF attempt < handler_max_retries
       THEN RetryLoop(handler_max_retries, replies, attempt + 1, made + 1,
                      nsent + 1, Append(slept, attempt))
       ELSE [invocations |-> made + 1, result |-> result, slept |-> slept]

\* a loop that counts max_retries as the number of attempts
Send_with_attempts(handler_max_retries, replies, nsent) ==
    RetryLoop(handler_max_retries - 1, replies, 0, 0, nsent, << >>)

Send_with_retry(handler_max_retries, replies, nsent) ==
    RetryLoop(handler_max_retries, replies, 0, 0, nsent, << >>)

\* min(a, b)
Min(a, b) == IF a <= b THEN a ELSE b

\* a delay that is not capped at max_delay
DelayUncapped(attempt, base, max_delay, draw) ==
    LET delay == base * 2 ^ attempt
    IN delay + (delay * 20 * draw) \div 10000

\* _delay, in tenths of a second: `draw` is where random.uniform falls in
\* its range [0, delay * 0.2], in percent of the range
Delay(attempt, base, max_delay, draw) ==
    LET delay == Min(base * 2 ^ attempt, max_delay)
        jitter == (delay * 20 * draw) \div 10000
    IN delay + jitter

\* ------------------------------------------------- sender.py, the callers
NotSubscribed ==
    SendResult(FALSE, None, Some("User not subscribed to immediate alerts"))
BelowThreshold == SendResult(FALSE, None, Some("Risk below threshold"))
Duplicate == SendResult(FALSE, None, Some("Duplicate within dedup window"))

\* the preference query without its is_paused filter
FirstPrefOfUser(tbl, user_id) ==
    LET hits == { i \in DOMAIN tbl : tbl[i].user_id = user_id }
    IN IF hits = {} THEN None
       ELSE Some(tbl[CHOOSE i \in hits : \A j \in hits : i <= j])

\* session.query(UserAlertPreference).filter(user_id, is_paused == False)
\* .first(): the matching row of lowest id, None without one
FirstPref(tbl, user_id) ==
    LET hits == { i \in DOMAIN tbl :
                    tbl[i].user_id = user_id /\ tbl[i].is_paused = FALSE }
    IN IF hits = {} THEN None
       ELSE Some(tbl[CHOOSE i \in hits : \A j \in hits : i <= j])

\* pref.risk_threshold or risk_threshold: a NULL or zero threshold falls
\* back to the argument's default
Threshold(pref) ==
    IF pref.risk_threshold = None \/ pref.risk_threshold = Some(0)
    THEN DefaultRiskThreshold ELSE Val(pref.risk_threshold)

\* the injected lookup of the user's address
Get_user_email(user_id) == << "user", user_id >>

\* the empty string, and what `or` takes for true: an address that is
\* neither None nor empty
EmptyStr == << >>
Truthy(email) == email # None /\ Val(email) # EmptyStr

\* the recipient with the preference's address ahead of the argument
EmailAddr_pref_first(user_email, pref, user_id) ==
    IF Truthy(pref.email) THEN Val(pref.email)
    ELSE IF Truthy(user_email) THEN Val(user_email)
    ELSE Get_user_email(user_id)

\* user_email or pref.email or self.get_user_email(user_id)
EmailAddr(user_email, pref, user_id) ==
    IF Truthy(user_email) THEN Val(user_email)
    ELSE IF Truthy(pref.email) THEN Val(pref.email)
    ELSE Get_user_email(user_id)

\* a caller's position and locals.  handler_max_retries to sleeps are those
\* of a caller of send_with_retry: its handler's max_retries, the answers of
\* its send_fn, the number of times send_fn was invoked, the handler's
\* base_delay and the sleeps made.  session tells whether the database
\* session of send_immediate_alert, line 58, is open.  data and pref_id are
\* the request body and the row found by put_alert_preferences and by the
\* notification routes; loaded is the row as a notification route read it
\* and fresh tells that the route has created it
IdleProc ==
    [pc |-> "idle", call |-> 0, user_id |-> 0, area_id |-> 0,
     risk_score |-> 0, user_email |-> None, email_addr |-> None,
     date_str |-> 0, sig |-> None, result |-> None,
     handler_max_retries |-> 0, replies |-> << >>, invocations |-> 0,
     base_delay |-> 0, sleeps |-> << >>, session |-> FALSE,
     data |-> << >>, pref_id |-> 0, loaded |-> None, fresh |-> FALSE]

\* the caller of process_risk_alerts: the loop's variables, the (user_id,
\* area_id) pairs send_immediate_alert was called for, and what the caller
\* remembers of this call's start and of its previous call
IdleBatch ==
    [pc |-> "idle", round |-> 0, events |-> << >>, idx |-> 0,
     queue |-> << >>, seen |-> {}, calls |-> << >>, results |-> << >>,
     started_at |-> 0, rows_before |-> 0, sent_before |-> 0,
     prev_events |-> << >>, prev_results |-> << >>, prev_at |-> 0]

\* the process that runs the batch's send_immediate_alert calls
BatchProc == CHOOSE p \in Procs : \A q \in Procs : p <= q

\* one risk event of the list given to process_risk_alerts
RiskEvent(area_id, area_name, risk_score) ==
    [area_id |-> area_id, area_name |-> area_name, risk_score |-> risk_score]

\* process_risk_alerts, lines 135-145: the areas of that name, and without
\* one the areas of the event's area_id if it has one
ResolveAreas(tbl, item) ==
    LET byName == SelectSeq(tbl, LAMBDA ua : ua.area_name = item.area_name)
    IN IF byName = << >> /\ item.area_id # None /\ item.area_id # Some(0)
       THEN SelectSeq(tbl, LAMBDA ua : ua.id = Val(item.area_id))
       ELSE byName

\* the loops of process_risk_alerts without the check of `seen`
RECURSIVE NextPairUnseen(_, _, _, _, _)
NextPairUnseen(tbl, events, idx, queue, seen) ==
    IF queue # << >>
    THEN LET ua == Head(queue)
         IN [done |-> FALSE, idx |-> idx, queue |-> Tail(queue),
             seen |-> seen \cup {<< ua.user_id, ua.id >>}, ua |-> Some(ua)]
    ELSE IF idx >= Len(events)
    THEN [done |-> TRUE, idx |-> idx, queue |-> << >>, seen |-> seen,
          ua |-> None]
    ELSE NextPairUnseen(tbl, events, idx + 1,
                        ResolveAreas(tbl, events[idx + 1]), seen)

\* process_risk_alerts, lines 128-151: run the two loops from the area
\* queue `queue` of event `idx` up to the next (user, area) pair that is not
\* in `seen`, or to the end of the list
RECURSIVE NextPair(_, _, _, _, _)
NextPair(tbl, events, idx, queue, seen) ==
    IF queue # << >>
    THEN LET ua == Head(queue)
             key == << ua.user_id, ua.id >>
         IN IF key \in seen
            THEN NextPair(tbl, events, idx, Tail(queue), seen)
            ELSE [done |-> FALSE, idx |-> idx, queue |-> Tail(queue),
                  seen |-> seen \cup {key}, ua |-> Some(ua)]
    ELSE IF idx >= Len(events)
    THEN [done |-> TRUE, idx |-> idx, queue |-> << >>, seen |-> seen,
          ua |-> None]
    ELSE NextPair(tbl, events, idx + 1,
                  ResolveAreas(tbl, events[idx + 1]), seen)

\* a call returns `result` to its caller; the finally clause, lines 116-117,
\* closes the session
Returned(self, result) ==
    [self EXCEPT !.pc = "returned", !.result = Some(result),
                 !.session = FALSE]

\* a caller enters send_immediate_alert, which opens its session: line 58
Enter(self, call, user_id, area_id, risk_score, user_email) ==
    [IdleProc EXCEPT !.pc = "start", !.call = call, !.user_id = user_id,
                     !.area_id = area_id, !.risk_score = risk_score,
                     !.user_email = user_email, !.session = TRUE]

\* send_immediate_alert, lines 58-76: the preference query, the threshold,
\* the recipient and the signature
AfterPreference(self, tbl, t) ==
    LET pref == FirstPref(tbl, self.user_id)
    IN IF pref = None \/ Val(pref).frequency \notin {"instant", "immediate"}
       THEN Returned(self, NotSubscribed)
       ELSE IF self.risk_score < Threshold(Val(pref))
       THEN Returned(self, BelowThreshold)
       ELSE [self EXCEPT
                !.pc = "dedup",
                !.email_addr =
                    Some(EmailAddr(self.user_email, Val(pref), self.user_id)),
                !.date_str = DateStr(t),
                !.sig = Some(Event_signature(self.area_id, self.risk_score,
                                             DateStr(t)))]

\* send_immediate_alert, lines 78-79: the dedup check
AfterDedup(self, tbl, t, window) ==
    IF Is_duplicate(tbl, self.user_id, Val(self.sig), t, window)
    THEN Returned(self, Duplicate)
    ELSE [self EXCEPT !.pc = "send"]

\* EmailMessage handed to the provider, with the call it belongs to
Message(self, t) ==
    [to |-> Val(self.email_addr), call |-> self.call,
     user_id |-> self.user_id, sig |-> Val(self.sig), at |-> t]

\* n copies of m appended to q
RECURSIVE AppendN(_, _, _)
AppendN(q, m, n) == IF n = 0 THEN q ELSE AppendN(Append(q, m), m, n - 1)

\* send_immediate_alert, lines 95-113: what the tracker is asked to store
RecordOutcome(self, tbl, t) ==
    LET result == Val(self.result)
    IN IF result.success
       THEN Record_send(tbl, self.user_id, Val(self.sig),
                        IF result.provider_message_id = None THEN << >>
                        ELSE Val(result.provider_message_id),
                        self.area_id, "immediate", self.risk_score, t)
       ELSE Record_failure(tbl, self.user_id, Val(self.sig),
                           IF result.error_message = None THEN "Unknown"
                           ELSE Val(result.error_message),
                           max_retries, self.area_id, "immediate",
                           self.risk_score, t)

\* ---------------------------------------------------------------- actions
\* a caller invokes send_immediate_alert directly, with arguments of the
\* given sets: lines 58-76
Call(p, users, areaIds, scores, emails) ==
    /\ proc[p].pc \in {"idle", "returned", "raised"}
    /\ batch.pc = "idle"
    /\ ncalls < MaxCalls
    /\ \E user_id \in users, area_id \in areaIds, risk_score \in scores,
          user_email \in emails :
          proc' = [proc EXCEPT ![p] =
                    AfterPreference(Enter(proc[p], ncalls + 1, user_id,
                                          area_id, risk_score, user_email),
                                    prefs, now)]
    /\ ncalls' = ncalls + 1
    /\ UNCHANGED << scheduler, notification_preferences, gate, digest, sweep, nhooks, now, dedup_window_hours, prefs, areas, ledger,
                    sent_messages, batch >>

Invoke(p) == Call(p, Users, AreaIds, Scores, UserEmails)

\* the calls made while the provider's webhook is being delivered
InvokeAlert(p) == Call(p, Users, {1}, {75}, UserEmails)

\* the dedup check with every refusal written to the ledger as a failure
CheckDuplicate_recording(p) ==
    /\ proc[p].pc = "dedup"
    /\ proc' = [proc EXCEPT ![p] =
                    AfterDedup(proc[p], ledger, now, dedup_window_hours)]
    /\ ledger' =
          IF Is_duplicate(ledger, proc[p].user_id, Val(proc[p].sig), now,
                          dedup_window_hours)
          THEN Append(ledger,
                      AlertActivity(Len(ledger) + 1, proc[p].user_id,
                                    Some(proc[p].area_id), << "refused" >>,
                                    "immediate", Some(proc[p].risk_score),
                                    None, Some("Duplicate"), 0, None, now))
          ELSE ledger
    /\ UNCHANGED << scheduler, notification_preferences, gate, digest, sweep,
                    nhooks, now, dedup_window_hours, prefs, areas,
                    sent_messages, ncalls, batch >>

\* send_immediate_alert, lines 78-79, as a step of its caller
CheckDuplicate(p) ==
    /\ proc[p].pc = "dedup"
    /\ proc' = [proc EXCEPT ![p] =
                    AfterDedup(proc[p], ledger, now, dedup_window_hours)]
    /\ UNCHANGED << scheduler, notification_preferences, gate, digest, sweep, nhooks, now, dedup_window_hours, prefs, areas, ledger,
                    sent_messages, ncalls, batch >>

\* the state of the call and of the ledger after lines 95-117: the outcome
\* is recorded and returned, or the tracker's exception leaves the call
AfterRecord(self, tbl, t) ==
    LET out == RecordOutcome(self, tbl, t)
    IN [table |-> out.table,
        self |-> IF out.raised
                 THEN [self EXCEPT !.pc = "raised", !.session = FALSE]
                 ELSE Returned(self, Val(self.result))]

\* send_immediate_alert, lines 81-117: render, send through the retry
\* handler (the provider's answers are the environment's choice), record
\* the outcome and return it; an exception of the tracker also leaves the
\* batch the call is part of
SendAndRecord(p) ==
    /\ proc[p].pc = "send"
    /\ \E replies \in ProviderBehaviours :
          LET r == Send_with_retry(max_retries, replies, Len(sent_messages))
              sent == [proc[p] EXCEPT !.result = Some(r.result)]
              out == AfterRecord(sent, ledger, now)
          IN /\ sent_messages' = AppendN(sent_messages, Message(proc[p], now),
                                         r.invocations)
             /\ ledger' = out.table
             /\ proc' = [proc EXCEPT ![p] = out.self]
             /\ batch' = IF out.self.pc = "raised" /\ batch.pc # "idle"
                         THEN [batch EXCEPT !.pc = "raised"] ELSE batch
    /\ UNCHANGED << scheduler, notification_preferences, gate, digest, sweep, nhooks, now, dedup_window_hours, prefs, areas, ncalls >>

\* the event lists the batch caller passes
EventLists ==
    { << RiskEvent(None, "Valley", 75) >>,
      << RiskEvent(None, "Valley", 45), RiskEvent(None, "Valley", 75) >>,
      << RiskEvent(Some(3), "Canyon", 75) >>,
      << RiskEvent(Some(3), "Canyon", 75), RiskEvent(None, "Ridge", 55) >> }

\* the caller invokes process_risk_alerts: lines 125-126
StartBatch ==
    /\ batch.pc \in {"idle", "done", "raised"}
    /\ batch.round < MaxBatches
    /\ \E events \in EventLists :
          batch' = [IdleBatch EXCEPT
                        !.pc = "run", !.round = batch.round + 1,
                        !.events = events, !.started_at = now,
                        !.rows_before = Len(ledger),
                        !.sent_before = Len(sent_messages),
                        !.prev_events = batch.events,
                        !.prev_results = batch.results,
                        !.prev_at = batch.started_at]
    /\ proc' = [proc EXCEPT ![BatchProc] = IdleProc]
    /\ UNCHANGED << scheduler, notification_preferences, gate, digest, sweep, nhooks, now, dedup_window_hours, prefs, areas, ledger,
                    sent_messages, ncalls >>

\* process_risk_alerts, lines 128-163: append the result of the call that
\* has returned, then go on to the next pair and call send_immediate_alert
\* for it (lines 58-76 of that call), or return the results
BatchStep ==
    /\ batch.pc = "run"
    /\ proc[BatchProc].pc \in {"idle", "returned"}
    /\ LET results == IF proc[BatchProc].pc = "returned"
                      THEN Append(batch.results, Val(proc[BatchProc].result))
                      ELSE batch.results
           nx == NextPair(areas, batch.events, batch.idx, batch.queue,
                          batch.seen)
       IN IF nx.done
          THEN /\ batch' = [batch EXCEPT !.pc = "done", !.results = results,
                                         !.idx = nx.idx, !.queue = nx.queue]
               /\ proc' = [proc EXCEPT ![BatchProc] = IdleProc]
               /\ ncalls' = ncalls
          ELSE /\ batch' = [batch EXCEPT
                                !.results = results, !.idx = nx.idx,
                                !.queue = nx.queue, !.seen = nx.seen,
                                !.calls = Append(@, << Val(nx.ua).user_id,
                                                       Val(nx.ua).id >>)]
               /\ proc' = [proc EXCEPT ![BatchProc] =
                            AfterPreference(
                                Enter(proc[BatchProc], ncalls + 1,
                                      Val(nx.ua).user_id, Val(nx.ua).id,
                                      batch.events[nx.idx].risk_score, None),
                                prefs, now)]
               /\ ncalls' = ncalls + 1
    /\ UNCHANGED << scheduler, notification_preferences, gate, digest, sweep, nhooks, now, dedup_window_hours, prefs, areas, ledger,
                    sent_messages >>

\* the RetryHandlers callers build and the send functions they pass: one
\* answer, success or failure, for each attempt
HandlerMaxRetries == 0 .. max_retries
SendFns == [1 .. max_retries + 1 -> {"ok", "fail"}]

\* the EmailMessage of a direct send_with_retry call
RetryMessage(call, t) ==
    [to |-> << "a@b.com" >>, call |-> call, user_id |-> 0, sig |-> << >>,
     at |-> t]

\* a caller builds a RetryHandler and calls send_with_retry with a send
\* function of its own: retry.py, lines 27-41
CallSendWithRetry(p) ==
    /\ proc[p].pc \in {"idle", "returned"}
    /\ batch.pc = "idle"
    /\ ncalls < MaxCalls
    /\ \E m \in HandlerMaxRetries, send_fn \in SendFns :
          LET r == Send_with_retry(m, send_fn, Len(sent_messages))
              self == [IdleProc EXCEPT !.call = ncalls + 1,
                                       !.handler_max_retries = m,
                                       !.replies = send_fn,
                                       !.invocations = r.invocations]
          IN /\ proc' = [proc EXCEPT ![p] = Returned(self, r.result)]
             /\ sent_messages' = AppendN(sent_messages,
                                         RetryMessage(ncalls + 1, now),
                                         r.invocations)
    /\ ncalls' = ncalls + 1
    /\ UNCHANGED << scheduler, notification_preferences, gate, digest, sweep, nhooks, now, dedup_window_hours, prefs, areas,
                    ledger, batch >>

\* the base delays of the handlers, in tenths of a second (2.0 s is the
\* default), and the draws of random.uniform
BaseDelays == {20, 300}
JitterDraws == {0, 100}

\* a caller builds RetryHandler(max_retries, base_delay) and calls
\* send_with_retry while time.sleep is timed: retry.py, lines 34-40
CallSendWithBackoff(p) ==
    /\ proc[p].pc \in {"idle", "returned"}
    /\ batch.pc = "idle"
    /\ ncalls < MaxCalls
    /\ \E m \in HandlerMaxRetries, base \in BaseDelays,
          send_fn \in ProviderBehaviours,
          draws \in [1 .. max_retries -> JitterDraws] :
          LET r == Send_with_retry(m, send_fn, Len(sent_messages))
              sleeps == [k \in 1 .. Len(r.slept) |->
                            [attempt |-> r.slept[k],
                             seconds |-> Delay(r.slept[k], base, DefaultMaxDelay,
                                               draws[k])]]
              self == [IdleProc EXCEPT !.call = ncalls + 1,
                                       !.handler_max_retries = m,
                                       !.replies = send_fn,
                                       !.invocations = r.invocations,
                                       !.base_delay = base,
                                       !.sleeps = sleeps]
          IN /\ proc' = [proc EXCEPT ![p] = Returned(self, r.result)]
             /\ sent_messages' = AppendN(sent_messages,
                                         RetryMessage(ncalls + 1, now),
                                         r.invocations)
    /\ ncalls' = ncalls + 1
    /\ UNCHANGED << scheduler, notification_preferences, gate, digest, sweep, nhooks, now, dedup_window_hours, prefs, areas,
                    ledger, batch >>

\* ------------------------------------------------------ routes/alerts.py
\* the webhook events the provider may deliver: a type, the id of data.email
\* and the message of data.error, each of which may be missing
WebhookTypes ==
    {"email.delivered", "email.delivery_delayed", "email.bounced",
     "email.complained", "email.opened"}
WebhookIds ==
    {None, Some(<< "msg", 99 >>)} \cup
    { Some(<< "msg", n >>) : n \in 1 .. Len(sent_messages) }
WebhookErrors == {None, Some("mailbox full")}

\* the handler with email.bounced as its only failure event
AfterWebhookBouncesOnly(tbl, event_type, email_id, error, t) ==
    IF email_id = None THEN tbl
    ELSE IF event_type = "email.delivered"
    THEN Mark_delivered(tbl, Val(email_id), t).table
    ELSE IF event_type = "email.bounced"
    THEN Mark_failed(tbl, Val(email_id),
                     IF error = None THEN event_type ELSE Val(error), t).table
    ELSE tbl

\* email_webhook: what the handler leaves in the ledger
AfterWebhook(tbl, event_type, email_id, error, t) ==
    IF email_id = None THEN tbl
    ELSE IF event_type = "email.delivered"
    THEN Mark_delivered(tbl, Val(email_id), t).table
    ELSE IF event_type \in {"email.delivery_delayed", "email.bounced",
                            "email.complained"}
    THEN Mark_failed(tbl, Val(email_id),
                     IF error = None THEN event_type ELSE Val(error), t).table
    ELSE tbl

EmailWebhook ==
    /\ nhooks < MaxWebhooks
    /\ nhooks' = nhooks + 1
    /\ \E event_type \in WebhookTypes, email_id \in WebhookIds,
          error \in WebhookErrors :
          ledger' = AfterWebhook(ledger, event_type, email_id, error, now)
    /\ UNCHANGED << scheduler, notification_preferences, gate, digest, sweep, now, dedup_window_hours, prefs, areas, sent_messages,
                    ncalls, proc, batch >>

\* ------------------------------------------------- __init__.py, scheduler.py
\* the retry_failed job before its first run
IdleSweep == [runs |-> 0, visited |-> {}, resent |-> {}]

\* _retry, run by the scheduler every 15 minutes: the loop visits the rows
\* of get_failed_alerts(config.max_retries) and its body is `pass`, so no
\* row is sent again and the ledger is left as it is
RetrySweep ==
    /\ sweep.runs < MaxSweeps
    /\ sweep' = [runs |-> sweep.runs + 1,
                 visited |-> Get_failed_alerts(ledger, max_retries),
                 resent |-> {}]
    /\ UNCHANGED << scheduler, notification_preferences, gate, digest, nhooks, now,
                    dedup_window_hours, prefs, areas, ledger, sent_messages,
                    ncalls, proc, batch >>

\* the digest jobs before their first run
IdleDigest ==
    [runs |-> 0, frequency |-> "", recipients |-> << >>, results |-> << >>,
     sent_before |-> 0, previous |-> ""]

\* the EmailMessage of a digest for the user of preference row `pref`
DigestMessage(pref, t) ==
    [to |-> IF Truthy(pref.email) THEN Val(pref.email)
            ELSE Get_user_email(pref.user_id),
     call |-> 0, user_id |-> pref.user_id, sig |-> << >>, at |-> t]

\* the loop of send_daily_digest and send_weekly_digest, lines 179-199 and
\* 221-243, from row k of the query's rows on: the messages the provider
\* has been handed and the results collected
RECURSIVE DigestLoop(_, _, _, _, _, _)
DigestLoop(rows, k, replies, msgs, results, t) ==
    IF k > Len(rows) THEN [msgs |-> msgs, results |-> results]
    ELSE LET r == Send_with_retry(max_retries, replies[k], Len(msgs))
         IN DigestLoop(rows, k + 1, replies,
                       AppendN(msgs, DigestMessage(rows[k], t),
                               r.invocations),
                       Append(results, r.result), t)

\* the rows of the digest query: frequency == ..., is_paused == False
DigestRows(tbl, frequency) ==
    SelectSeq(tbl, LAMBDA pref :
                      pref.frequency = frequency /\ pref.is_paused = FALSE)

\* a digest that leaves out the users the ledger holds a row of within the
\* dedup window
SendDigest_skipping_recent(frequency) ==
    /\ digest.runs < MaxDigests
    /\ LET rows ==
             SelectSeq(DigestRows(prefs, frequency),
                       LAMBDA pref :
                          ~\E i \in DOMAIN ledger :
                               /\ ledger[i].user_id = pref.user_id
                               /\ ledger[i].created_at >=
                                      now - dedup_window_hours)
       IN \E replies \in [1 .. Len(rows) -> ProviderBehaviours] :
             LET out == DigestLoop(rows, 1, replies, sent_messages, << >>,
                                   now)
             IN /\ sent_messages' = out.msgs
                /\ digest' = [runs |-> digest.runs + 1,
                              frequency |-> frequency,
                              recipients |->
                                  [k \in 1 .. Len(rows) |-> rows[k].user_id],
                              results |-> out.results,
                              sent_before |-> Len(sent_messages),
                              previous |-> digest.frequency]
    /\ UNCHANGED << scheduler, notification_preferences, gate, sweep, nhooks,
                    now, dedup_window_hours, prefs, areas, ledger, ncalls,
                    proc, batch >>

\* send_daily_digest ("daily") or send_weekly_digest ("weekly"), run by the
\* scheduler; the provider's answers are the environment's choice
SendDigest(frequency) ==
    /\ digest.runs < MaxDigests
    /\ LET rows == DigestRows(prefs, frequency)
       IN \E replies \in [1 .. Len(rows) -> ProviderBehaviours] :
             LET out == DigestLoop(rows, 1, replies, sent_messages, << >>,
                                   now)
             IN /\ sent_messages' = out.msgs
                /\ digest' = [runs |-> digest.runs + 1,
                              frequency |-> frequency,
                              recipients |->
                                  [k \in 1 .. Len(rows) |-> rows[k].user_id],
                              results |-> out.results,
                              sent_before |-> Len(sent_messages),
                              previous |-> digest.frequency]
    /\ UNCHANGED << scheduler, notification_preferences, gate, sweep, nhooks, now,
                    dedup_window_hours, prefs, areas, ledger, ncalls, proc,
                    batch >>

\* ------------------------------------ routes/alerts.py, alert preferences
\* the users of the PUT /alert-preferences requests and the bodies sent: a
\* frequency, a risk_threshold, an is_paused and an email, each of which may
\* be left out; "monthly" and 101 are values a client can send
PutUsers == {1, 3}
PutBodies ==
    [frequency : {None, Some("daily"), Some("weekly"), Some("monthly")},
     risk_threshold : {None, Some(101)},
     is_paused : {None, Some(TRUE), Some(FALSE)},
     email : {None}]

\* the first row of that user, 0 without one: .filter(user_id).first()
FirstPrefId(tbl, user_id) ==
    LET hits == { i \in DOMAIN tbl : tbl[i].user_id = user_id }
    IN IF hits = {} THEN 0 ELSE CHOOSE i \in hits : \A j \in hits : i <= j

\* the fields of the body written to the row: lines 73-80
ApplyBody(pref, data) ==
    [pref EXCEPT
        !.frequency = IF data.frequency = None THEN @
                      ELSE Val(data.frequency),
        !.risk_threshold = IF data.risk_threshold = None THEN @
                           ELSE data.risk_threshold,
        !.is_paused = IF data.is_paused = None THEN @
                      ELSE Val(data.is_paused),
        !.email = IF data.email = None THEN @ ELSE data.email]

\* put_alert_preferences, lines 64-69: the handler looks for the user's row
PutQuery(p) ==
    /\ proc[p].pc \in {"idle", "responded"}
    /\ ncalls < MaxCalls
    /\ \E user_id \in PutUsers, data \in PutBodies :
          proc' = [proc EXCEPT ![p] =
                    [IdleProc EXCEPT !.pc = "put", !.call = ncalls + 1,
                                     !.user_id = user_id, !.data = data,
                                     !.pref_id = FirstPrefId(prefs, user_id)]]
    /\ ncalls' = ncalls + 1
    /\ UNCHANGED << scheduler, notification_preferences, gate, digest, sweep, nhooks, now,
                    dedup_window_hours, prefs, areas, ledger, sent_messages,
                    batch >>

\* put_alert_preferences, lines 70-83: without a row the handler adds one
\* with the column defaults, then it writes the body's fields and commits
PutCommit(p) ==
    /\ proc[p].pc = "put"
    /\ prefs' =
          IF proc[p].pref_id = 0
          THEN Append(prefs,
                      ApplyBody(PrefRow(Len(prefs) + 1, proc[p].user_id,
                                        "instant", Some(DefaultRiskThreshold),
                                        FALSE, None),
                                proc[p].data))
          ELSE [prefs EXCEPT ![proc[p].pref_id] = ApplyBody(@, proc[p].data)]
    /\ proc' = [proc EXCEPT ![p].pc = "responded"]
    /\ UNCHANGED << scheduler, notification_preferences, gate, digest, sweep, nhooks, now,
                    dedup_window_hours, areas, ledger, sent_messages, ncalls,
                    batch >>

\* unsubscribe, lines 86-98: the first row of the user, if there is one,
\* is paused
UnsubUsers == {1, 3}
Unsubscribe(p) ==
    /\ proc[p].pc \in {"idle", "returned", "raised", "responded"}
    /\ ncalls < MaxCalls
    /\ \E user_id \in UnsubUsers :
          LET id == FirstPrefId(prefs, user_id)
          IN /\ prefs' = IF id = 0 THEN prefs
                         ELSE [prefs EXCEPT ![id].is_paused = TRUE]
             /\ proc' = [proc EXCEPT ![p] =
                           [IdleProc EXCEPT !.pc = "unsubscribed",
                                            !.call = ncalls + 1,
                                            !.user_id = user_id,
                                            !.pref_id = id]]
    /\ ncalls' = ncalls + 1
    /\ UNCHANGED << scheduler, notification_preferences, gate, digest, sweep,
                    nhooks, now, dedup_window_hours, areas, ledger,
                    sent_messages, batch >>

\* --------------------------------------------- routes/notifications.py
\* the frequencies and the thresholds _apply_preference_updates accepts
FREQUENCY_OPTIONS == {"instant", "daily", "weekly"}
RISK_MIN == 0
RISK_MAX == 100

\* a row of notification_preferences
NotificationPreference(id, user_id, opted_in, frequency, risk_threshold, paused_until, blackout_start, blackout_end, last_sent_at, unsubscribed_at) ==
    [id |-> id, user_id |-> user_id, opted_in |-> opted_in,
     frequency |-> frequency, risk_threshold |-> risk_threshold,
     paused_until |-> paused_until, blackout_start |-> blackout_start,
     blackout_end |-> blackout_end, last_sent_at |-> last_sent_at,
     unsubscribed_at |-> unsubscribed_at]

\* the rows of two users who have subscribed to the daily digest
NotificationTable ==
    << NotificationPreference(1, 1, TRUE, "daily", 0, None, None, None, None,
                              None),
       NotificationPreference(2, 2, TRUE, "daily", 0, None, None, None, None,
                              None) >>

\* a row as _get_or_create_preference adds it: the column defaults
DefaultPreference(id, user_id) ==
    NotificationPreference(id, user_id, FALSE, "daily", 0, None, None, None,
                           None, None)

\* the table of the notification routes: user 1 has the row their first
\* request created, user 2 has subscribed, user 3 has no row
NotifyTable ==
    << DefaultPreference(1, 1),
       NotificationPreference(2, 2, TRUE, "daily", 0, None, None, None, None,
                              None) >>

\* the users of the requests and the JSON bodies of the two PUT routes: a
\* key that is left out is None, a key that is present carries its value,
\* which for the three times is null or an hour
NotifyUsers == {1, 3}
NotifyBodies ==
    [opted_in : {None, Some(TRUE), Some(FALSE)},
     frequency : {None, Some("weekly"), Some("monthly")},
     risk_threshold : {None, Some(101)},
     paused_until : {None},
     blackout_start : {None, Some(Some(30))},
     blackout_end : {None, Some(Some(20))}]

\* the requests: the route and its body
NotifyRequests ==
    { [route |-> "subscribe", body |-> << >>],
      [route |-> "unsubscribe", body |-> << >>] }
    \cup { [route |-> "admin_update", body |-> b] : b \in NotifyBodies }
    \cup { [route |-> "update_my", body |-> b] :
              b \in { c \in NotifyBodies : c.opted_in = None } }

\* the mapped object of a request: its attribute values, the attributes the
\* handler has assigned, and whether the handler has answered 400
Loaded(row) == [obj |-> row, assigned |-> {}, error |-> FALSE]
SetAttr(o, f, v) ==
    [o EXCEPT !.obj = [@ EXCEPT ![f] = v], !.assigned = @ \cup {f}]
Fail(o) == [o EXCEPT !.error = TRUE]

\* _apply_preference_updates, lines 95-131: each key in turn, returning at
\* the first invalid one, then the blackout order
Apply_preference_updates(o, data) ==
    LET o1 == IF data.frequency = None THEN o
              ELSE IF Val(data.frequency) \notin FREQUENCY_OPTIONS
              THEN Fail(o)
              ELSE SetAttr(o, "frequency", Val(data.frequency))
        o2 == IF o1.error \/ data.risk_threshold = None THEN o1
              ELSE IF \/ Val(data.risk_threshold) < RISK_MIN
                      \/ Val(data.risk_threshold) > RISK_MAX
              THEN Fail(o1)
              ELSE SetAttr(o1, "risk_threshold", Val(data.risk_threshold))
        o3 == IF o2.error \/ data.paused_until = None THEN o2
              ELSE SetAttr(o2, "paused_until", Val(data.paused_until))
        o4 == IF o3.error \/ data.blackout_start = None THEN o3
              ELSE SetAttr(o3, "blackout_start", Val(data.blackout_start))
        o5 == IF o4.error \/ data.blackout_end = None THEN o4
              ELSE SetAttr(o4, "blackout_end", Val(data.blackout_end))
    IN IF o5.error THEN o5
       ELSE IF /\ o5.obj.blackout_start # None
               /\ o5.obj.blackout_end # None
               /\ Val(o5.obj.blackout_start) > Val(o5.obj.blackout_end)
       THEN Fail(o5)
       ELSE o5

\* the handler's work on the object between the query and the commit:
\* subscribe_notifications 172-173, unsubscribe_notifications 185-186,
\* admin_update_notifications 208-214, update_my_notifications 151-154
Handle(request, o, t) ==
    IF request.route = "subscribe"
    THEN SetAttr(SetAttr(o, "opted_in", TRUE), "unsubscribed_at", None)
    ELSE IF request.route = "unsubscribe"
    THEN SetAttr(SetAttr(o, "opted_in", FALSE), "unsubscribed_at", Some(t))
    ELSE IF request.route = "admin_update"
    THEN LET opted ==
               IF request.body.opted_in = None THEN o
               ELSE SetAttr(SetAttr(o, "opted_in",
                                    Val(request.body.opted_in)),
                            "unsubscribed_at",
                            IF Val(request.body.opted_in) THEN None
                            ELSE Some(t))
         IN Apply_preference_updates(opted, request.body)
    ELSE Apply_preference_updates(o, request.body)

\* db.session.commit(): the UPDATE sets the columns the handler assigned a
\* value other than the one it had read; after the commit that created the
\* row the object is expired and every assigned column is set
Flush(row, o, loaded, fresh) ==
    [f \in DOMAIN row |->
        IF f \in o.assigned /\ (fresh \/ o.obj[f] # loaded[f])
        THEN o.obj[f] ELSE row[f]]

\* a notification route starts: _get_or_create_preference queries the
\* user's row, line 49
NotifyQuery(p) ==
    /\ proc[p].pc \in {"idle", "responded", "raised"}
    /\ ncalls < MaxCalls
    /\ \E user_id \in NotifyUsers, request \in NotifyRequests :
          LET id == FirstPrefId(notification_preferences, user_id)
          IN proc' = [proc EXCEPT ![p] =
                        [IdleProc EXCEPT
                            !.pc = IF id = 0 THEN "create" ELSE "apply",
                            !.call = ncalls + 1, !.user_id = user_id,
                            !.data = request, !.pref_id = id,
                            !.loaded =
                                IF id = 0 THEN None
                                ELSE Some(notification_preferences[id])]]
    /\ ncalls' = ncalls + 1
    /\ UNCHANGED << scheduler, notification_preferences, gate, digest, sweep,
                    nhooks, now, dedup_window_hours, prefs, areas, ledger,
                    sent_messages, batch >>

\* _get_or_create_preference, lines 52-55: without a row the handler adds
\* one and commits; user_id is unique, so the commit raises when another
\* request has added the user's row meanwhile
NotifyCreate(p) ==
    /\ proc[p].pc = "create"
    /\ IF FirstPrefId(notification_preferences, proc[p].user_id) # 0
       THEN /\ proc' = [proc EXCEPT ![p].pc = "raised"]
            /\ UNCHANGED notification_preferences
       ELSE LET id == Len(notification_preferences) + 1
                row == DefaultPreference(id, proc[p].user_id)
            IN /\ notification_preferences' =
                     Append(notification_preferences, row)
               /\ proc' = [proc EXCEPT ![p].pc = "apply",
                                       ![p].pref_id = id,
                                       ![p].loaded = Some(row),
                                       ![p].fresh = TRUE]
    /\ UNCHANGED << scheduler, gate, digest, sweep, nhooks, now,
                    dedup_window_hours, prefs, areas, ledger, sent_messages,
                    ncalls, batch >>

\* the rest of the route: the handler assigns the attributes and, unless
\* the body is invalid, commits.  An expired object reads the row anew
NotifyCommit(p) ==
    /\ proc[p].pc = "apply"
    /\ LET row == notification_preferences[proc[p].pref_id]
           o == Handle(proc[p].data,
                       Loaded(IF proc[p].fresh THEN row
                              ELSE Val(proc[p].loaded)),
                       now)
       IN notification_preferences' =
             IF o.error THEN notification_preferences
             ELSE [notification_preferences EXCEPT
                      ![proc[p].pref_id] =
                          Flush(row, o, Val(proc[p].loaded), proc[p].fresh)]
    /\ proc' = [proc EXCEPT ![p].pc = "responded"]
    /\ UNCHANGED << scheduler, gate, digest, sweep, nhooks, now,
                    dedup_window_hours, prefs, areas, ledger, sent_messages,
                    ncalls, batch >>

\* no evaluation of should_send_alert yet
IdleGate == [risk_level |-> 0, now |-> 0, result |-> None]

\* should_send_alert without the opt-in gate
Should_send_alert_opted_out_too(pref, risk_level, check_time) ==
    IF pref.paused_until # None /\ check_time < Val(pref.paused_until)
    THEN FALSE
    ELSE IF /\ pref.blackout_start # None /\ pref.blackout_end # None
            /\ Val(pref.blackout_start) <= check_time
            /\ check_time <= Val(pref.blackout_end)
    THEN FALSE
    ELSE IF risk_level < pref.risk_threshold THEN FALSE
    ELSE IF pref.frequency = "instant" THEN TRUE
    ELSE IF pref.last_sent_at = None THEN TRUE
    ELSE LET delta == check_time - Val(pref.last_sent_at)
         IN IF pref.frequency = "daily" THEN delta >= HoursPerDay
            ELSE IF pref.frequency = "weekly"
            THEN delta >= DaysPerWeek * HoursPerDay
            ELSE FALSE

\* should_send_alert with a pause that still blocks at paused_until itself
Should_send_alert_paused_at_end(pref, risk_level, check_time) ==
    IF ~pref.opted_in THEN FALSE
    ELSE IF pref.paused_until # None /\ check_time <= Val(pref.paused_until)
    THEN FALSE
    ELSE IF /\ pref.blackout_start # None /\ pref.blackout_end # None
            /\ Val(pref.blackout_start) <= check_time
            /\ check_time <= Val(pref.blackout_end)
    THEN FALSE
    ELSE IF risk_level < pref.risk_threshold THEN FALSE
    ELSE IF pref.frequency = "instant" THEN TRUE
    ELSE IF pref.last_sent_at = None THEN TRUE
    ELSE LET delta == check_time - Val(pref.last_sent_at)
         IN IF pref.frequency = "daily" THEN delta >= HoursPerDay
            ELSE IF pref.frequency = "weekly"
            THEN delta >= DaysPerWeek * HoursPerDay
            ELSE FALSE

\* should_send_alert with a blackout that ends before blackout_end
Should_send_alert_open_blackout(pref, risk_level, check_time) ==
    IF ~pref.opted_in THEN FALSE
    ELSE IF pref.paused_until # None /\ check_time < Val(pref.paused_until)
    THEN FALSE
    ELSE IF /\ pref.blackout_start # None /\ pref.blackout_end # None
            /\ Val(pref.blackout_start) <= check_time
            /\ check_time < Val(pref.blackout_end)
    THEN FALSE
    ELSE IF risk_level < pref.risk_threshold THEN FALSE
    ELSE IF pref.frequency = "instant" THEN TRUE
    ELSE IF pref.last_sent_at = None THEN TRUE
    ELSE LET delta == check_time - Val(pref.last_sent_at)
         IN IF pref.frequency = "daily" THEN delta >= HoursPerDay
            ELSE IF pref.frequency = "weekly"
            THEN delta >= DaysPerWeek * HoursPerDay
            ELSE FALSE

\* should_send_alert with periods that must be exceeded
Should_send_alert_after_period(pref, risk_level, check_time) ==
    IF ~pref.opted_in THEN FALSE
    ELSE IF pref.paused_until # None /\ check_time < Val(pref.paused_until)
    THEN FALSE
    ELSE IF /\ pref.blackout_start # None /\ pref.blackout_end # None
            /\ Val(pref.blackout_start) <= check_time
            /\ check_time <= Val(pref.blackout_end)
    THEN FALSE
    ELSE IF risk_level < pref.risk_threshold THEN FALSE
    ELSE IF pref.frequency = "instant" THEN TRUE
    ELSE IF pref.last_sent_at = None THEN TRUE
    ELSE LET delta == check_time - Val(pref.last_sent_at)
         IN IF pref.frequency = "daily" THEN delta > HoursPerDay
            ELSE IF pref.frequency = "weekly"
            THEN delta > DaysPerWeek * HoursPerDay
            ELSE FALSE

\* should_send_alert, lines 74-92, at the time check_time of line 73
Should_send_alert(pref, risk_level, check_time) ==
    IF ~pref.opted_in THEN FALSE
    ELSE IF pref.paused_until # None /\ check_time < Val(pref.paused_until)
    THEN FALSE
    ELSE IF /\ pref.blackout_start # None /\ pref.blackout_end # None
            /\ Val(pref.blackout_start) <= check_time
            /\ check_time <= Val(pref.blackout_end)
    THEN FALSE
    ELSE IF risk_level < pref.risk_threshold THEN FALSE
    ELSE IF pref.frequency = "instant" THEN TRUE
    ELSE IF pref.last_sent_at = None THEN TRUE
    ELSE LET delta == check_time - Val(pref.last_sent_at)
         IN IF pref.frequency = "daily" THEN delta >= HoursPerDay
            ELSE IF pref.frequency = "weekly"
            THEN delta >= DaysPerWeek * HoursPerDay
            ELSE FALSE

\* the preferences should_send_alert is evaluated for, with times in hours:
\* a pause to hour 30, a blackout from hour 20 to hour 30 or one without an
\* end, a last send at hour 1 or 6
GatePrefs ==
    { NotificationPreference(1, 1, opted_in, frequency, risk_threshold,
                             paused_until, blackout[1], blackout[2],
                             last_sent_at, None) :
        opted_in \in BOOLEAN, frequency \in {"instant", "daily", "weekly"},
        risk_threshold \in {0, 40}, paused_until \in {None, Some(30)},
        blackout \in {<< None, None >>, << Some(20), Some(30) >>,
                      << Some(20), None >>},
        last_sent_at \in {None, Some(1), Some(6)} }

\* the risk levels and the times passed as `now`; None leaves the time to
\* the clock
RiskLevels == {30, 40, 50}
GateTimes == {None} \cup { Some(t) : t \in {19, 20, 25, 30, 31, 168, 174} }

\* a caller evaluates should_send_alert for the stored preference: line 73
\* takes the time from the argument or from the clock
ShouldSendAlert ==
    /\ \E risk_level \in RiskLevels, t \in GateTimes :
          LET check_time == IF t = None THEN now ELSE Val(t)
          IN gate' = [risk_level |-> risk_level, now |-> check_time,
                      result |-> Some(Should_send_alert(
                                          notification_preferences[1],
                                          risk_level, check_time))]
    /\ UNCHANGED << scheduler, notification_preferences, digest, sweep, nhooks, now,
                    dedup_window_hours, prefs, areas, ledger, sent_messages,
                    ncalls, proc, batch >>

\* --------------------------------------------------------- scheduler.py
\* the ids of the three jobs added by DigestScheduler.__init__
Jobs == {"daily_digest", "weekly_digest", "retry_failed"}

\* the jobs are added without max_instances, so the scheduler's default
\* applies: one running instance for each job
max_instances == 1

\* the scheduler as constructed: not started, no job has run
IdleScheduler ==
    [state |-> "stopped", starts |-> 0,
     running |-> [job \in Jobs |-> 0],
     started |-> [job \in Jobs |-> 0],
     skipped |-> [job \in Jobs |-> 0]]

\* DigestScheduler.start
Start ==
    /\ scheduler.state = "stopped"
    /\ scheduler.starts < MaxStarts
    /\ scheduler' = [scheduler EXCEPT !.state = "running",
                                      !.starts = @ + 1]
    /\ UNCHANGED << notification_preferences, gate, digest, sweep, nhooks,
                    now, dedup_window_hours, prefs, areas, ledger,
                    sent_messages, ncalls, proc, batch >>

\* a trigger that fires whatever the scheduler's state
Fire_when_stopped(job) ==
    /\ scheduler.started[job] + scheduler.skipped[job] < MaxFires
    /\ scheduler' =
          IF scheduler.running[job] < max_instances
          THEN [scheduler EXCEPT !.running[job] = @ + 1,
                                 !.started[job] = @ + 1]
          ELSE [scheduler EXCEPT !.skipped[job] = @ + 1]
    /\ UNCHANGED << notification_preferences, gate, digest, sweep, nhooks,
                    now, dedup_window_hours, prefs, areas, ledger,
                    sent_messages, ncalls, proc, batch >>

\* a trigger that starts the job whatever instances of it are running
Fire_overlapping(job) ==
    /\ scheduler.state = "running"
    /\ scheduler.started[job] + scheduler.skipped[job] < MaxFires
    /\ scheduler' = [scheduler EXCEPT !.running[job] = @ + 1,
                                      !.started[job] = @ + 1]
    /\ UNCHANGED << notification_preferences, gate, digest, sweep, nhooks,
                    now, dedup_window_hours, prefs, areas, ledger,
                    sent_messages, ncalls, proc, batch >>

\* the cron trigger of a job fires while the scheduler runs: the job starts
\* an execution unless max_instances of it are running, and then the run is
\* skipped
Fire(job) ==
    /\ scheduler.state = "running"
    /\ scheduler.started[job] + scheduler.skipped[job] < MaxFires
    /\ scheduler' =
          IF scheduler.running[job] < max_instances
          THEN [scheduler EXCEPT !.running[job] = @ + 1,
                                 !.started[job] = @ + 1]
          ELSE [scheduler EXCEPT !.skipped[job] = @ + 1]
    /\ UNCHANGED << notification_preferences, gate, digest, sweep, nhooks,
                    now, dedup_window_hours, prefs, areas, ledger,
                    sent_messages, ncalls, proc, batch >>

\* an execution of the job returns
Finish(job) ==
    /\ scheduler.running[job] > 0
    /\ scheduler' = [scheduler EXCEPT !.running[job] = @ - 1]
    /\ UNCHANGED << notification_preferences, gate, digest, sweep, nhooks,
                    now, dedup_window_hours, prefs, areas, ledger,
                    sent_messages, ncalls, proc, batch >>

\* DigestScheduler.shutdown(wait) is called: the scheduler stops firing;
\* with wait the call returns only when the running executions have
\* returned, without it at once
Shutdown(wait) ==
    /\ scheduler.state = "running"
    /\ scheduler' =
          [scheduler EXCEPT !.state =
              IF wait /\ \E job \in Jobs : scheduler.running[job] > 0
              THEN "shutting_down" ELSE "stopped"]
    /\ UNCHANGED << notification_preferences, gate, digest, sweep, nhooks,
                    now, dedup_window_hours, prefs, areas, ledger,
                    sent_messages, ncalls, proc, batch >>

\* shutdown(wait=True) returns once no execution is running
ShutdownReturn ==
    /\ scheduler.state = "shutting_down"
    /\ \A job \in Jobs : scheduler.running[job] = 0
    /\ scheduler' = [scheduler EXCEPT !.state = "stopped"]
    /\ UNCHANGED << notification_preferences, gate, digest, sweep, nhooks,
                    now, dedup_window_hours, prefs, areas, ledger,
                    sent_messages, ncalls, proc, batch >>

\* an hour passes
Tick ==
    /\ now < MaxHour
    /\ now' = now + 1
    /\ UNCHANGED << scheduler, notification_preferences, gate, digest, sweep, nhooks, dedup_window_hours, prefs, areas, ledger,
                    sent_messages, ncalls, proc, batch >>

\* the two users' preference rows and the monitored areas
PrefTable ==
    << PrefRow(1, 1, "instant", Some(50), FALSE, Some(<< "pref", 1 >>)),
       PrefRow(2, 2, "immediate", Some(70), FALSE, None) >>

AreaTable ==
    << AreaRow(1, 1, "Valley"), AreaRow(2, 2, "Valley") >>

Init ==
    /\ nhooks = 0
    /\ now = StartHour
    /\ dedup_window_hours \in {TestDedupWindowHours, DefaultDedupWindowHours}
    /\ prefs = PrefTable
    /\ areas = AreaTable
    /\ ledger = << >>
    /\ sent_messages = << >>
    /\ ncalls = 0
    /\ proc = [p \in Procs |-> IdleProc]
    /\ batch = IdleBatch
    /\ sweep = IdleSweep
    /\ digest = IdleDigest
    /\ notification_preferences = NotificationTable
    /\ gate = IdleGate
    /\ scheduler = IdleScheduler

Next ==
    \/ \E p \in Procs : Invoke(p)
    \/ \E p \in Procs : CheckDuplicate(p)
    \/ \E p \in Procs : SendAndRecord(p)
    \/ Tick

Spec == Init /\ [][Next]_vars

\* the senders together with the provider's webhook
NextLedger ==
    \/ \E p \in Procs : InvokeAlert(p)
    \/ \E p \in Procs : CheckDuplicate(p)
    \/ \E p \in Procs : SendAndRecord(p)
    \/ EmailWebhook
    \/ Tick

SpecLedger == Init /\ [][NextLedger]_vars

\* the senders, the provider's webhook and the scheduler's retry job
NextSweep ==
    \/ \E p \in Procs : InvokeAlert(p)
    \/ \E p \in Procs : CheckDuplicate(p)
    \/ \E p \in Procs : SendAndRecord(p)
    \/ EmailWebhook
    \/ RetrySweep
    \/ Tick

SpecSweep == Init /\ [][NextSweep]_vars

\* the callers that pass, or leave out, a recipient address
EmailArgs == {None, Some(EmptyStr), Some(<< "arg", 1 >>)}

\* the preference tables of the recipient's runs: user 1 has a row without
\* an address, with an empty one or with an address; user 2 has none
EmailTables ==
    { << PrefRow(1, 1, "instant", Some(50), FALSE, email) >> :
        email \in {None, Some(EmptyStr), Some(<< "pref", 1 >>)} }

InvokeEmail(p) == Call(p, Users, {1}, {75}, EmailArgs)

InitEmail ==
    /\ nhooks = 0
    /\ now = StartHour
    /\ dedup_window_hours = DefaultDedupWindowHours
    /\ prefs \in EmailTables
    /\ areas = AreaTable
    /\ ledger = << >>
    /\ sent_messages = << >>
    /\ ncalls = 0
    /\ proc = [p \in Procs |-> IdleProc]
    /\ batch = IdleBatch
    /\ sweep = IdleSweep
    /\ digest = IdleDigest
    /\ notification_preferences = NotificationTable
    /\ gate = IdleGate
    /\ scheduler = IdleScheduler

NextEmail ==
    \/ \E p \in Procs : InvokeEmail(p)
    \/ \E p \in Procs : CheckDuplicate(p)
    \/ \E p \in Procs : SendAndRecord(p)
    \/ Tick

SpecEmail == InitEmail /\ [][NextEmail]_vars

\* the clients of the notification routes
InitNotify ==
    /\ nhooks = 0
    /\ now = StartHour
    /\ dedup_window_hours = DefaultDedupWindowHours
    /\ prefs = PrefTable
    /\ areas = AreaTable
    /\ ledger = << >>
    /\ sent_messages = << >>
    /\ ncalls = 0
    /\ proc = [p \in Procs |-> IdleProc]
    /\ batch = IdleBatch
    /\ sweep = IdleSweep
    /\ digest = IdleDigest
    /\ notification_preferences = NotifyTable
    /\ gate = IdleGate
    /\ scheduler = IdleScheduler

NextNotify ==
    \/ \E p \in Procs : NotifyQuery(p)
    \/ \E p \in Procs : NotifyCreate(p)
    \/ \E p \in Procs : NotifyCommit(p)

SpecNotify == InitNotify /\ [][NextNotify]_vars

\* the senders, the clients of PUT /alert-preferences and the digest jobs
NextDigest ==
    \/ \E p \in Procs : InvokeAlert(p)
    \/ \E p \in Procs : CheckDuplicate(p)
    \/ \E p \in Procs : SendAndRecord(p)
    \/ \E p \in Procs : PutQuery(p)
    \/ \E p \in Procs : PutCommit(p)
    \/ SendDigest("daily")
    \/ SendDigest("weekly")

SpecDigest == Init /\ [][NextDigest]_vars

\* the senders, the digest jobs and the clients that unsubscribe and that
\* update their preferences
NextUnsub ==
    \/ \E p \in Procs : InvokeAlert(p)
    \/ \E p \in Procs : CheckDuplicate(p)
    \/ \E p \in Procs : SendAndRecord(p)
    \/ \E p \in Procs : Unsubscribe(p)
    \/ \E p \in Procs : PutQuery(p)
    \/ \E p \in Procs : PutCommit(p)
    \/ SendDigest("daily")
    \/ SendDigest("weekly")

SpecUnsub == Init /\ [][NextUnsub]_vars

\* the scheduler, its triggers and the executions of its jobs
NextSched ==
    \/ Start
    \/ \E job \in Jobs : Fire(job)
    \/ \E job \in Jobs : Finish(job)
    \/ \E wait \in BOOLEAN : Shutdown(wait)
    \/ ShutdownReturn

SpecSched == Init /\ [][NextSched]_vars

\* the evaluations of should_send_alert
InitGate ==
    /\ nhooks = 0
    /\ now = StartHour
    /\ dedup_window_hours = DefaultDedupWindowHours
    /\ prefs = PrefTable
    /\ areas = AreaTable
    /\ ledger = << >>
    /\ sent_messages = << >>
    /\ ncalls = 0
    /\ proc = [p \in Procs |-> IdleProc]
    /\ batch = IdleBatch
    /\ sweep = IdleSweep
    /\ digest = IdleDigest
    /\ notification_preferences \in { << pref >> : pref \in GatePrefs }
    /\ gate = IdleGate
    /\ scheduler = IdleScheduler

NextGate == ShouldSendAlert

SpecGate == InitGate /\ [][NextGate]_vars

\* the clients of PUT /alert-preferences and the scheduler's digest jobs
NextPut ==
    \/ \E p \in Procs : PutQuery(p)
    \/ \E p \in Procs : PutCommit(p)
    \/ SendDigest("daily")
    \/ SendDigest("weekly")

SpecPut == Init /\ [][NextPut]_vars

\* the callers of send_with_retry whose sleeps are timed
NextBackoff ==
    \/ \E p \in Procs : CallSendWithBackoff(p)
    \/ Tick

SpecBackoff == Init /\ [][NextBackoff]_vars

\* the callers of send_with_retry
NextRetry ==
    \/ \E p \in Procs : CallSendWithRetry(p)
    \/ Tick

SpecRetry == Init /\ [][NextRetry]_vars

\* the tables of the batch caller's runs: user 1 takes instant alerts from
\* score 50, user 2 takes the daily digest, user 3 has paused
BatchPrefTable ==
    << PrefRow(1, 1, "instant", Some(50), FALSE, None),
       PrefRow(2, 2, "daily", Some(70), FALSE, None),
       PrefRow(3, 3, "instant", Some(70), TRUE, None) >>

BatchAreaTable ==
    << AreaRow(1, 1, "Valley"), AreaRow(2, 2, "Valley"),
       AreaRow(3, 1, "Ridge"), AreaRow(4, 3, "Ridge") >>

InitBatch ==
    /\ nhooks = 0
    /\ now = StartHour
    /\ dedup_window_hours \in {TestDedupWindowHours, DefaultDedupWindowHours}
    /\ prefs = BatchPrefTable
    /\ areas = BatchAreaTable
    /\ ledger = << >>
    /\ sent_messages = << >>
    /\ ncalls = 0
    /\ proc = [p \in Procs |-> IdleProc]
    /\ batch = IdleBatch
    /\ sweep = IdleSweep
    /\ digest = IdleDigest
    /\ notification_preferences = NotificationTable
    /\ gate = IdleGate
    /\ scheduler = IdleScheduler

NextBatch ==
    \/ StartBatch
    \/ BatchStep
    \/ CheckDuplicate(BatchProc)
    \/ SendAndRecord(BatchProc)
    \/ Tick

SpecBatch == InitBatch /\ [][NextBatch]_vars

\* the values put_alert_preferences stores in a user's preference row
Frequencies == {"instant", "immediate", "daily", "weekly"}
Thresholds == {None, Some(0), Some(50), Some(100)}

\* the preference tables of the subscriber's runs: user 1 has the one row
\* put_alert_preferences made for them, user 2 has none
PrefTables ==
    { << PrefRow(1, 1, f, th, pz, None) >> :
        f \in Frequencies, th \in Thresholds, pz \in BOOLEAN }

\* the calls made for the subscriber's area
InvokeUser(p) == Call(p, Users, {1}, {49, 50, 75}, UserEmails)

InitPrefs ==
    /\ nhooks = 0
    /\ now = StartHour
    /\ dedup_window_hours = DefaultDedupWindowHours
    /\ prefs \in PrefTables
    /\ areas = AreaTable
    /\ ledger = << >>
    /\ sent_messages = << >>
    /\ ncalls = 0
    /\ proc = [p \in Procs |-> IdleProc]
    /\ batch = IdleBatch
    /\ sweep = IdleSweep
    /\ digest = IdleDigest
    /\ notification_preferences = NotificationTable
    /\ gate = IdleGate
    /\ scheduler = IdleScheduler

NextPrefs ==
    \/ \E p \in Procs : InvokeUser(p)
    \/ \E p \in Procs : CheckDuplicate(p)
    \/ \E p \in Procs : SendAndRecord(p)
    \/ Tick

SpecPrefs == InitPrefs /\ [][NextPrefs]_vars

\* ------------------------------------------------------------------ claims
\* the pairs process_risk_alerts calls send_immediate_alert for
PairsOf(tbl, events) ==
    { << ua.user_id, ua.id >> :
        ua \in UNION { { ResolveAreas(tbl, events[k])[n] :
                           n \in DOMAIN ResolveAreas(tbl, events[k]) } :
                       k \in DOMAIN events } }

EligibilityResults == {NotSubscribed, BelowThreshold, Duplicate}

\* the caller's process_risk_alerts call has returned, its list is the list
\* of the caller's previous call, and no more than the dedup window has
\* passed since that call began
SecondIdenticalBatch ==
    /\ batch.pc = "done"
    /\ batch.round >= 2
    /\ batch.events = batch.prev_events
    /\ now - batch.prev_at <= dedup_window_hours

\* C1: a process_risk_alerts call that repeats the previous call's event
\* list within the dedup window hands the provider no message and adds no
\* ledger row, and where the first call sent for every pair each of its
\* results is Duplicate.
C1_SecondBatchOnlyDuplicates ==
    SecondIdenticalBatch =>
        /\ Len(sent_messages) = batch.sent_before
        /\ Len(ledger) = batch.rows_before
        /\ (\A k \in DOMAIN batch.prev_results :
                batch.prev_results[k] \notin EligibilityResults)
           => \A k \in DOMAIN batch.results : batch.results[k] = Duplicate

\* C2: the ledger never holds two rows with the same user_id and
\* event_signature, whatever the senders and the webhook have done.
C2_UniqueUserSignature ==
    \A i, j \in DOMAIN ledger :
        (/\ ledger[i].user_id = ledger[j].user_id
         /\ ledger[i].event_signature = ledger[j].event_signature) => i = j

\* a second insert of a recorded pair has been rejected, and the webhook has
\* updated a row
C2_Witness ==
    /\ \E p \in Procs : proc[p].pc = "raised"
    /\ \E i \in DOMAIN ledger : ledger[i].updated_at # ledger[i].created_at

\* C3: the messages the provider was handed for one user and one event
\* signature within one dedup window all come from the same
\* send_immediate_alert call.
C3_OneSendingCallPerWindow ==
    \A i, j \in DOMAIN sent_messages :
        (/\ i < j
         /\ sent_messages[i].user_id = sent_messages[j].user_id
         /\ sent_messages[i].sig = sent_messages[j].sig
         /\ sent_messages[j].at - sent_messages[i].at <= dedup_window_hours)
        => sent_messages[i].call = sent_messages[j].call

\* C4: no send_immediate_alert call whose send succeeded ends with the
\* exception of record_send's unique constraint: the conflict is a success
\* without effect.
C4_ConflictIsNoOpSuccess ==
    \A p \in Procs :
        ~(proc[p].pc = "raised" /\ Val(proc[p].result).success)

\* C5: process_risk_alerts never raises, and when it returns it has one
\* result for every (user, area) pair its events resolve to.
C5_BatchNeverRaises ==
    /\ batch.pc # "raised"
    /\ batch.pc = "done" =>
         Len(batch.results) = Cardinality(PairsOf(areas, batch.events))

\* process p takes the step of send_immediate_alert that asks is_duplicate
DedupStep(p) == proc[p].pc = "dedup" /\ proc'[p].pc # "dedup"

\* process p takes the step that sends and records
SendStep(p) == proc[p].pc = "send" /\ proc'[p].pc # "send"

\* ledger row i is of p's user and carries p's signature
SamePair(p, i) ==
    /\ ledger[i].user_id = proc[p].user_id
    /\ ledger[i].event_signature = Val(proc[p].sig)

\* C6: is_duplicate answers true exactly when the ledger holds a row of that
\* user and that signature whose age is at most the dedup window; rows of
\* another user or another signature, and older rows, do not count.
C6_IsDuplicateIffRecentRow ==
    [][\A p \in Procs :
        DedupStep(p) =>
            ((proc'[p].result = Some(Duplicate))
             <=> \E i \in DOMAIN ledger :
                    /\ SamePair(p, i)
                    /\ now - ledger[i].created_at <= dedup_window_hours)]_vars

\* a call has passed the dedup check although the ledger holds a row of its
\* user and signature, which is older than the window
C6_Witness ==
    \E p \in Procs :
        /\ proc[p].pc = "send"
        /\ \E i \in DOMAIN ledger :
              /\ SamePair(p, i)
              /\ now - ledger[i].created_at > dedup_window_hours

\* the risk bucket as the specification words it
SpecBucket(score) ==
    IF score >= 70 THEN "high"
    ELSE IF 50 <= score /\ score < 70 THEN "medium" ELSE "low"

\* ledger row i is of p's user and p's area and holds a score in the bucket
\* of p's score
SameEventRow(p, i) ==
    /\ ledger[i].user_id = proc[p].user_id
    /\ ledger[i].area_id = Some(proc[p].area_id)
    /\ SpecBucket(Val(ledger[i].risk_score)) = SpecBucket(proc[p].risk_score)

\* C7: a call for a user, area and risk bucket that were sent an alert less
\* than the dedup window ago is answered Duplicate, whether or not UTC
\* midnight lies between the two calls.
C7_DuplicateAcrossMidnight ==
    [][\A p \in Procs :
        (/\ DedupStep(p)
         /\ \E i \in DOMAIN ledger :
               /\ SameEventRow(p, i)
               /\ ledger[i].provider_message_id # None
               /\ now - ledger[i].created_at < dedup_window_hours)
        => proc'[p].result = Some(Duplicate)]_vars

\* the ledger holds a row of p's user and signature that is older than the
\* dedup window
WindowElapsed(p) ==
    \E i \in DOMAIN ledger :
        /\ SamePair(p, i)
        /\ now - ledger[i].created_at > dedup_window_hours

\* C8: a call whose signature is in the ledger only in rows older than the
\* dedup window is not answered Duplicate, and it returns the provider's
\* result with its outcome recorded in a new ledger row.
C8_EligibleAgainAfterWindow ==
    [][\A p \in Procs :
        /\ (DedupStep(p) /\ WindowElapsed(p)
            /\ ~\E i \in DOMAIN ledger :
                    /\ SamePair(p, i)
                    /\ now - ledger[i].created_at <= dedup_window_hours)
           => proc'[p].pc = "send"
        /\ (SendStep(p) /\ WindowElapsed(p))
           => /\ proc'[p].pc = "returned"
              /\ Len(ledger') = Len(ledger) + 1]_vars

\* C9: a call is answered Duplicate exactly when the ledger holds a row,
\* no older than the window, of the same user and area whose score is in
\* the bucket of the call's score and whose signature was taken on the
\* call's UTC day; such a row has the call's signature whatever the two
\* scores are, and a row of another area, bucket or day has not.
C9_SignatureByBucket ==
    [][\A p \in Procs :
        DedupStep(p) =>
            /\ \A i \in DOMAIN ledger :
                  (ledger[i].event_signature = Val(proc[p].sig))
                  <=> (/\ ledger[i].area_id = Some(proc[p].area_id)
                       /\ SpecBucket(Val(ledger[i].risk_score))
                            = SpecBucket(proc[p].risk_score)
                       /\ ledger[i].event_signature
                            = Event_signature(Val(ledger[i].area_id),
                                              Val(ledger[i].risk_score),
                                              proc[p].date_str))
            /\ (proc'[p].result = Some(Duplicate))
               <=> \E i \in DOMAIN ledger :
                      /\ SameEventRow(p, i)
                      /\ ledger[i].event_signature
                           = Event_signature(Val(ledger[i].area_id),
                                             Val(ledger[i].risk_score),
                                             proc[p].date_str)
                      /\ now - ledger[i].created_at <= dedup_window_hours]_vars

\* a call has been answered Duplicate because of a row with another score
\* of the same bucket
C9_Witness ==
    \E p \in Procs :
        /\ proc[p].result = Some(Duplicate)
        /\ \E i \in DOMAIN ledger :
              /\ SamePair(p, i)
              /\ Val(ledger[i].risk_score) # proc[p].risk_score

\* C10: the step that sends for a call that passed the eligibility checks
\* appends exactly one ledger row, of the call's user and signature: with a
\* provider_message_id and no error_message when the send succeeded, with an
\* error_message and no provider_message_id when it failed.
C10_OneRowPerEligibleAttempt ==
    [][\A p \in Procs :
        SendStep(p) =>
            /\ Len(ledger') = Len(ledger) + 1
            /\ LET row == ledger'[Len(ledger')]
                   result == Val(proc'[p].result)
               IN /\ row.user_id = proc[p].user_id
                  /\ row.event_signature = Val(proc[p].sig)
                  /\ IF result.success
                     THEN row.provider_message_id # None
                          /\ row.error_message = None
                     ELSE row.error_message # None
                          /\ row.provider_message_id = None]_vars

\* the messages the provider was handed by the call p has made
MessagesOf(p) ==
    { k \in DOMAIN sent_messages : sent_messages[k].call = proc[p].call }

\* the user has no preference row, or the row is paused or is not of an
\* instant or immediate frequency
NoImmediatePreference(user_id) ==
    \A i \in DOMAIN prefs :
        prefs[i].user_id = user_id =>
            \/ prefs[i].is_paused
            \/ prefs[i].frequency \notin {"instant", "immediate"}

\* C11: a send_immediate_alert call for a user without a preference row, with
\* a paused preference or with a frequency other than instant and immediate
\* has returned NotSubscribed, and the provider was handed no message by it
C11_NotSubscribed ==
    \A p \in Procs :
        (proc[p].pc # "idle" /\ NoImmediatePreference(proc[p].user_id)) =>
            /\ proc[p].pc = "returned"
            /\ proc[p].result = Some(NotSubscribed)
            /\ MessagesOf(p) = {}

\* one call was refused for a paused instant preference and another for a
\* user without a row
C11_Witness ==
    \E p, q \in Procs :
        /\ proc[p].result = Some(NotSubscribed)
        /\ \E i \in DOMAIN prefs :
              /\ prefs[i].user_id = proc[p].user_id
              /\ prefs[i].is_paused
              /\ prefs[i].frequency = "instant"
        /\ proc[q].result = Some(NotSubscribed)
        /\ \A i \in DOMAIN prefs : prefs[i].user_id # proc[q].user_id

\* C12: with an unpaused instant preference whose stored threshold is t, a
\* call has returned BelowThreshold exactly when its risk_score is below t,
\* and a call with a risk_score of t or more has gone on to the dedup check
C12_BelowThresholdIffBelowStored ==
    \A p \in Procs : \A i \in DOMAIN prefs :
        ( /\ proc[p].pc # "idle"
          /\ prefs[i].user_id = proc[p].user_id
          /\ ~prefs[i].is_paused
          /\ prefs[i].frequency = "instant"
          /\ prefs[i].risk_threshold # None ) =>
            LET t == Val(prefs[i].risk_threshold)
            IN /\ (proc[p].result = Some(BelowThreshold)) <=>
                      (proc[p].risk_score < t)
               /\ proc[p].risk_score >= t => proc[p].sig # None

\* a transport failure as send_immediate_alert records it
TransportFailure(row) ==
    /\ row.provider_message_id = None
    /\ row.error_message # None
    /\ row.retry_count = max_retries

\* C13: a run of the retry sweep selects every transport failure that
\* send_immediate_alert has recorded, and sends its alert again
C13_SweepRecoversFailures ==
    [][sweep'.runs # sweep.runs =>
          \A i \in DOMAIN ledger :
              TransportFailure(ledger[i]) =>
                  i \in sweep'.visited /\ i \in sweep'.resent]_vars

\* the values get_failed_alerts is given for max_retry_count
MaxRetryCounts == 0 .. max_retries + 1

\* C14: get_failed_alerts(max_retry_count) returns exactly the rows without a
\* provider_message_id, with an error_message and with retry_count below
\* max_retry_count; no row with a provider_message_id is returned
C14_FailedAlertsSelection ==
    \A m \in MaxRetryCounts : \A i \in DOMAIN ledger :
        /\ i \in Get_failed_alerts(ledger, m) <=>
              /\ ledger[i].provider_message_id = None
              /\ ledger[i].error_message # None
              /\ ledger[i].retry_count < m
        /\ ledger[i].provider_message_id # None =>
              i \notin Get_failed_alerts(ledger, m)

\* the sweep has run on a ledger that holds a sent alert the provider has
\* bounced (an error and a retry_count below the maximum, with a
\* provider_message_id) and a failure that a larger maximum selects
C14_Witness ==
    /\ sweep.runs > 0
    /\ \E i \in DOMAIN ledger :
          /\ ledger[i].provider_message_id # None
          /\ ledger[i].error_message # None
          /\ ledger[i].retry_count < max_retries
    /\ Get_failed_alerts(ledger, max_retries + 1) # {}

\* the provider_message_ids a webhook may name
MessageIds == { Val(id) : id \in WebhookIds \ {None} }

\* the rows of the ledger with that provider_message_id
RowsOfMessage(tbl, id) ==
    { k \in DOMAIN tbl : tbl[k].provider_message_id = Some(id) }

\* the row without its two timestamps delivered_at and updated_at
Untimed(row) == [row EXCEPT !.delivered_at = None, !.updated_at = 0]

\* C15: mark_delivered without a matching row returns false and leaves the
\* ledger as it is; with a matching row it returns true, sets delivered_at
\* and clears error_message, and a second application at any later time
\* returns true and changes no column but the timestamps
C15_MarkDeliveredIdempotent ==
    \A id \in MessageIds : \A t2 \in now .. MaxHour :
        LET first == Mark_delivered(ledger, id, now)
            second == Mark_delivered(first.table, id, t2)
        IN IF RowsOfMessage(ledger, id) = {}
           THEN ~first.found /\ first.table = ledger
           ELSE /\ first.found
                /\ Len(first.table) = Len(ledger)
                /\ \A k \in RowsOfMessage(ledger, id) :
                      /\ first.table[k].delivered_at = Some(now)
                      /\ first.table[k].error_message = None
                /\ second.found
                /\ Len(second.table) = Len(first.table)
                /\ \A k \in DOMAIN first.table :
                      Untimed(second.table[k]) = Untimed(first.table[k])

\* the webhook has confirmed a delivery an hour or more after the send
C15_Witness ==
    /\ nhooks > 0
    /\ \E i \in DOMAIN ledger :
          /\ ledger[i].delivered_at # None
          /\ Val(ledger[i].delivered_at) > ledger[i].created_at
          /\ ledger[i].updated_at = Val(ledger[i].delivered_at)

\* the messages a failure webhook carries
FailureMessages == {"mailbox full", "email.bounced"}

\* C16: mark_failed on a matching row returns true, adds exactly 1 to its
\* retry_count and sets its error_message, and leaves provider_message_id,
\* event_signature and delivered_at as they were; without a matching row it
\* returns false and changes nothing
C16_MarkFailedIncrements ==
    \A id \in MessageIds : \A message \in FailureMessages :
        LET r == Mark_failed(ledger, id, message, now)
        IN IF RowsOfMessage(ledger, id) = {}
           THEN ~r.found /\ r.table = ledger
           ELSE /\ r.found
                /\ Len(r.table) = Len(ledger)
                /\ \A k \in RowsOfMessage(ledger, id) :
                      /\ r.table[k].retry_count = ledger[k].retry_count + 1
                      /\ r.table[k].error_message = Some(message)
                      /\ r.table[k].provider_message_id =
                            ledger[k].provider_message_id
                      /\ r.table[k].event_signature =
                            ledger[k].event_signature
                      /\ r.table[k].delivered_at = ledger[k].delivered_at

\* the webhook has reported a bounce of a sent alert
C16_Witness ==
    /\ nhooks > 0
    /\ \E i \in DOMAIN ledger :
          /\ ledger[i].provider_message_id # None
          /\ ledger[i].error_message = Some("mailbox full")
          /\ ledger[i].retry_count = 1
          /\ ledger[i].delivered_at # None

\* C17: the webhook handler applies mark_delivered(id) for email.delivered
\* and mark_failed(id, message) for email.delivery_delayed, email.bounced
\* and email.complained; any other type and a payload without an id leave
\* every ledger row as it is
C17_WebhookRouting ==
    \A event_type \in WebhookTypes, email_id \in WebhookIds,
       error \in WebhookErrors :
        LET after == AfterWebhook(ledger, event_type, email_id, error, now)
            message == IF error = None THEN event_type ELSE Val(error)
        IN IF email_id = None
           THEN after = ledger
           ELSE IF event_type = "email.delivered"
           THEN after = Mark_delivered(ledger, Val(email_id), now).table
           ELSE IF event_type \in {"email.delivery_delayed", "email.bounced",
                                   "email.complained"}
           THEN after = Mark_failed(ledger, Val(email_id), message, now).table
           ELSE after = ledger

\* the handler has applied mark_failed for a complaint about a sent alert
C17_Witness ==
    /\ nhooks > 0
    /\ \E i \in DOMAIN ledger :
          /\ ledger[i].provider_message_id # None
          /\ ledger[i].error_message = Some("email.complained")

\* C18: a webhook callback changes no row's user_id, event_signature or
\* created_at, so every answer of is_duplicate, that of a call waiting at
\* its dedup check included, is the same after the callback as before it
C18_WebhookKeepsDedupAnswers ==
    [][nhooks' # nhooks =>
          /\ Len(ledger') = Len(ledger)
          /\ \A i \in DOMAIN ledger :
                /\ ledger'[i].user_id = ledger[i].user_id
                /\ ledger'[i].event_signature = ledger[i].event_signature
                /\ ledger'[i].created_at = ledger[i].created_at
          /\ \A user_id \in Users, i \in DOMAIN ledger, t \in now .. MaxHour :
                Is_duplicate(ledger', user_id, ledger[i].event_signature, t,
                             dedup_window_hours)
                    = Is_duplicate(ledger, user_id,
                                   ledger[i].event_signature, t,
                                   dedup_window_hours)
          /\ \A p \in Procs :
                proc[p].pc = "dedup" =>
                    AfterDedup(proc[p], ledger', now, dedup_window_hours)
                        = AfterDedup(proc[p], ledger, now,
                                     dedup_window_hours)]_vars

\* a call waits at its dedup check while the ledger holds a row of its user
\* and signature that a webhook callback has updated
C18_Witness ==
    /\ nhooks > 0
    /\ \E p \in Procs : \E i \in DOMAIN ledger :
          /\ proc[p].pc = "dedup"
          /\ ledger[i].user_id = proc[p].user_id
          /\ Some(ledger[i].event_signature) = proc[p].sig
          /\ ledger[i].updated_at # ledger[i].created_at

\* C19: a row's delivered_at becomes non-null only in a webhook callback; a
\* row that record_send or record_failure has just created has none
C19_DeliveredAtOnlyByWebhook ==
    [][\A i \in DOMAIN ledger' :
          ledger'[i].delivered_at # None =>
              /\ i \in DOMAIN ledger
              /\ ledger[i].delivered_at # None \/ nhooks' # nhooks]_vars

\* the attempts of p's send function, within the handler's limit, that succeed
Successes(p) ==
    { k \in 1 .. proc[p].handler_max_retries + 1 : proc[p].replies[k] = "ok" }

\* C20: send_with_retry has invoked send_fn up to its first success, or
\* max_retries + 1 times without one, and has returned the result of the
\* last invocation; failing twice and then succeeding with max_retries = 3
\* gives success after 3 invocations, always failing with max_retries = 2
\* gives failure after 3 invocations
C20_RetryUntilSuccess ==
    \A p \in Procs :
        proc[p].replies # << >> =>
            LET m == proc[p].handler_max_retries
                n == proc[p].invocations
                last == CHOOSE k \in MessagesOf(p) :
                            \A j \in MessagesOf(p) : j <= k
            IN /\ proc[p].pc = "returned"
               /\ n = IF Successes(p) = {} THEN m + 1
                      ELSE CHOOSE k \in Successes(p) :
                               \A j \in Successes(p) : k <= j
               /\ Cardinality(MessagesOf(p)) = n
               /\ proc[p].result =
                     Some(ProviderSend(proc[p].replies[n], last))
               /\ (m = 3 /\ proc[p].replies[1] = "fail"
                         /\ proc[p].replies[2] = "fail"
                         /\ proc[p].replies[3] = "ok") =>
                     Val(proc[p].result).success /\ n = 3
               /\ (m = 2 /\ Successes(p) = {}) =>
                     ~Val(proc[p].result).success /\ n = 3

\* one caller's send_fn failed twice and then succeeded under max_retries
\* = 3, the other's failed every time under max_retries = 2
C20_Witness ==
    \E p, q \in Procs :
        /\ proc[p].handler_max_retries = 3
        /\ proc[p].replies = << "fail", "fail", "ok", "ok" >>
        /\ proc[p].invocations = 3
        /\ Val(proc[p].result).success
        /\ proc[q].handler_max_retries = 2
        /\ proc[q].replies = << "fail", "fail", "fail", "fail" >>
        /\ proc[q].invocations = 3
        /\ ~Val(proc[q].result).success

\* C21: after failed attempt i send_with_retry sleeps min(base_delay * 2^i,
\* max_delay) plus a jitter of 0 to 20% of that, never more than 1.2 *
\* max_delay; it sleeps once before each additional attempt and not before
\* the first attempt, after a success or after the final attempt
C21_BackoffSleeps ==
    \A p \in Procs :
        proc[p].base_delay > 0 =>
            LET sleeps == proc[p].sleeps
            IN /\ Len(sleeps) = proc[p].invocations - 1
               /\ \A k \in DOMAIN sleeps :
                     LET i == sleeps[k].attempt
                         d == IF proc[p].base_delay * 2 ^ i <= DefaultMaxDelay
                              THEN proc[p].base_delay * 2 ^ i ELSE DefaultMaxDelay
                     IN /\ i = k - 1
                        /\ i < proc[p].handler_max_retries
                        /\ proc[p].replies[i + 1] = "fail"
                        /\ d <= sleeps[k].seconds
                        /\ 10 * sleeps[k].seconds <= 12 * d
                        /\ 10 * sleeps[k].seconds <= 12 * DefaultMaxDelay

\* a send has exhausted three retries of a handler whose delay reaches the
\* cap, with the largest jitter on the capped sleep, and another send has
\* succeeded at once without a sleep
C21_Witness ==
    \E p, q \in Procs :
        /\ proc[p].handler_max_retries = max_retries
        /\ proc[p].invocations = max_retries + 1
        /\ Len(proc[p].sleeps) = max_retries
        /\ 10 * proc[p].sleeps[max_retries].seconds = 12 * DefaultMaxDelay
        /\ proc[q].base_delay > 0
        /\ proc[q].invocations = 1
        /\ Val(proc[q].result).success
        /\ proc[q].sleeps = << >>

\* C22: no database session is open while the retry executor sends or
\* sleeps: the session send_immediate_alert has read the preference with is
\* closed when send_with_retry is entered
C22_NoSessionWhileSending ==
    [][\A p \in Procs : SendStep(p) => ~proc[p].session]_vars

\* the messages the provider was handed since the batch call began
BatchMessages == { k \in DOMAIN sent_messages : k > batch.sent_before }

\* the events of the list that resolve to the pair
EventsOfPair(pair) ==
    { k \in DOMAIN batch.events :
        \E n \in DOMAIN ResolveAreas(areas, batch.events[k]) :
            LET ua == ResolveAreas(areas, batch.events[k])[n]
            IN << ua.user_id, ua.id >> = pair }

\* C23: within one process_risk_alerts call send_immediate_alert is invoked
\* at most once for a (user_id, area_id) pair, and the messages the batch
\* hands the provider for one user and area all belong to one call
C23_OneCallPerPair ==
    /\ \A i, j \in DOMAIN batch.calls :
          batch.calls[i] = batch.calls[j] => i = j
    /\ \A k, l \in BatchMessages :
          ( /\ sent_messages[k].user_id = sent_messages[l].user_id
            /\ sent_messages[k].sig[1] = sent_messages[l].sig[1] ) =>
              sent_messages[k].call = sent_messages[l].call

\* a batch has returned in which two events resolve to one pair, and the
\* pair was called for once and sent to
C23_Witness ==
    /\ batch.pc = "done"
    /\ \E i \in DOMAIN batch.calls :
          /\ Cardinality(EventsOfPair(batch.calls[i])) > 1
          /\ \E k \in BatchMessages :
                /\ sent_messages[k].user_id = batch.calls[i][1]
                /\ sent_messages[k].sig[1] = batch.calls[i][2]

\* the number of send_with_retry calls the digest run has made for the user
DigestSends(d, user_id) ==
    Cardinality({ k \in DOMAIN d.recipients : d.recipients[k] = user_id })

\* the users of the preference table
PrefUsers == { prefs[i].user_id : i \in DOMAIN prefs }

\* C24: a digest run makes exactly one send through the retry executor, and
\* returns one result, for each user whose preference has the run's
\* frequency and is not paused, and none for another user, whether or not
\* the sends before it have failed
C24_OneDigestPerUser ==
    [][digest'.runs # digest.runs =>
          /\ Len(digest'.results) = Len(digest'.recipients)
          /\ \A user_id \in PrefUsers :
                DigestSends(digest', user_id) =
                    IF \E i \in DOMAIN prefs :
                          /\ prefs[i].user_id = user_id
                          /\ prefs[i].frequency = digest'.frequency
                          /\ ~prefs[i].is_paused
                    THEN 1 ELSE 0]_vars

\* C25: there is at most one alert-preference row per user, and no row is
\* ever deleted
C25_OnePreferencePerUser ==
    [][/\ \A i, j \in DOMAIN prefs' :
            prefs'[i].user_id = prefs'[j].user_id => i = j
       /\ Len(prefs') >= Len(prefs)]_vars

\* the preference should_send_alert was evaluated for
GatePref == notification_preferences[1]

\* the pause blocks: paused_until is set and lies after the time
InPause(pref, t) == pref.paused_until # None /\ t < Val(pref.paused_until)

\* the blackout blocks: the time lies in [blackout_start, blackout_end]
InBlackout(pref, t) ==
    /\ pref.blackout_start # None /\ pref.blackout_end # None
    /\ Val(pref.blackout_start) <= t /\ t <= Val(pref.blackout_end)

\* the frequency gate: instant always, daily and weekly without a last send
\* or a full period after it
FrequencyGate(pref, t) ==
    \/ pref.frequency = "instant"
    \/ /\ pref.frequency = "daily"
       /\ pref.last_sent_at = None \/ t - Val(pref.last_sent_at) >= 24
    \/ /\ pref.frequency = "weekly"
       /\ pref.last_sent_at = None \/ t - Val(pref.last_sent_at) >= 7 * 24

\* C26: for a preference that is not opted in should_send_alert is false,
\* for every risk level, every time and every other field
C26_OptedOutNeverAlerts ==
    (gate.result # None /\ ~GatePref.opted_in) => Val(gate.result) = FALSE

\* the gate has refused a preference that is not opted in and that passes
\* every other gate
C26_Witness ==
    /\ gate.result = Some(FALSE)
    /\ ~GatePref.opted_in
    /\ ~InPause(GatePref, gate.now) /\ ~InBlackout(GatePref, gate.now)
    /\ gate.risk_level >= GatePref.risk_threshold
    /\ FrequencyGate(GatePref, gate.now)

\* C27: should_send_alert is false while now < paused_until; from
\* paused_until on the pause does not block and the result is that of the
\* other gates: opt-in, blackout, threshold and frequency
C27_PauseBlocksUntilEnd ==
    (gate.result # None /\ GatePref.paused_until # None) =>
        IF gate.now < Val(GatePref.paused_until)
        THEN Val(gate.result) = FALSE
        ELSE Val(gate.result) <=>
                /\ GatePref.opted_in
                /\ ~InBlackout(GatePref, gate.now)
                /\ gate.risk_level >= GatePref.risk_threshold
                /\ FrequencyGate(GatePref, gate.now)

\* the gate has let an alert pass at the very hour the pause ended
C27_Witness ==
    /\ gate.result = Some(TRUE)
    /\ GatePref.paused_until = Some(gate.now)

\* C28: should_send_alert is false at every time from blackout_start to
\* blackout_end, both included, whatever the pause, the risk level and the
\* frequency
C28_BlackoutBlocks ==
    (gate.result # None /\ InBlackout(GatePref, gate.now)) =>
        Val(gate.result) = FALSE

\* the gate has refused, at the last hour of the blackout, an alert that
\* passes every other gate
C28_Witness ==
    /\ gate.result = Some(FALSE)
    /\ GatePref.blackout_start # None
    /\ GatePref.blackout_end = Some(gate.now)
    /\ GatePref.opted_in
    /\ ~InPause(GatePref, gate.now)
    /\ gate.risk_level >= GatePref.risk_threshold
    /\ FrequencyGate(GatePref, gate.now)

\* C29: for an opted-in preference outside pause and blackout
\* should_send_alert is false below the threshold; from the threshold on it
\* is true for instant, and for daily (weekly) exactly when last_sent_at is
\* null or lies 1 day (7 days) or more back
C29_ThresholdAndFrequency ==
    ( /\ gate.result # None
      /\ GatePref.opted_in
      /\ ~InPause(GatePref, gate.now)
      /\ ~InBlackout(GatePref, gate.now) ) =>
        IF gate.risk_level < GatePref.risk_threshold
        THEN Val(gate.result) = FALSE
        ELSE Val(gate.result) <=> FrequencyGate(GatePref, gate.now)

\* the gate has let a weekly alert pass exactly 7 days after the last send
C29_Witness ==
    /\ gate.result = Some(TRUE)
    /\ GatePref.frequency = "weekly"
    /\ GatePref.last_sent_at # None
    /\ gate.now - Val(GatePref.last_sent_at) = 7 * 24

\* process p takes the step that sends, and the provider accepts the message
SuccessfulSendStep(p) ==
    /\ SendStep(p)
    /\ proc'[p].result # None
    /\ Val(proc'[p].result).success

\* C30: the step of a successful send to a user leaves that user's
\* notification preference with last_sent_at equal to the time of the send
C30_LastSentAtOnSend ==
    [][\A p \in Procs :
        SuccessfulSendStep(p) =>
            \A i \in DOMAIN notification_preferences' :
                notification_preferences'[i].user_id = proc[p].user_id =>
                    notification_preferences'[i].last_sent_at = Some(now)]_vars

\* process p's PUT /alert-preferences request commits
PutCommitStep(p) == proc[p].pc = "put" /\ proc'[p].pc = "responded"

\* the row of prefs' that p's request has written
PutRow(p) ==
    IF proc[p].pref_id = 0 THEN prefs'[Len(prefs')]
    ELSE prefs'[proc[p].pref_id]

\* C31: a preference update that commits leaves the row it wrote with a
\* frequency of instant, daily or weekly and a risk_threshold in [0, 100]:
\* a body with another frequency or threshold is rejected and not stored
C31_UpdatesValidated ==
    [][\A p \in Procs :
        PutCommitStep(p) =>
            /\ proc[p].data.frequency # None =>
                  PutRow(p).frequency \in FREQUENCY_OPTIONS
            /\ proc[p].data.risk_threshold # None =>
                  /\ PutRow(p).risk_threshold # None
                  /\ Val(PutRow(p).risk_threshold) >= RISK_MIN
                  /\ Val(PutRow(p).risk_threshold) <= RISK_MAX]_vars

Given(email) == email # None /\ Val(email) # << >>

\* the address the claim names for a call with argument user_email of a user
\* whose preference row is pref
Recipient(user_email, pref, user_id) ==
    IF Given(user_email) THEN Val(user_email)
    ELSE IF Given(pref.email) THEN Val(pref.email)
    ELSE << "user", user_id >>

\* C34: the recipient of an immediate alert is the email argument if one is
\* given, otherwise the email stored on the preference if one is set,
\* otherwise the lookup's address for user_id; every message of the call is
\* addressed to it
C34_RecipientPrecedence ==
    \A p \in Procs :
        proc[p].email_addr # None =>
            /\ \E i \in DOMAIN prefs :
                  /\ prefs[i].user_id = proc[p].user_id
                  /\ Val(proc[p].email_addr) =
                        Recipient(proc[p].user_email, prefs[i],
                                  proc[p].user_id)
            /\ \A k \in MessagesOf(p) :
                  sent_messages[k].to = Val(proc[p].email_addr)

\* a message went to the address of the argument although the preference
\* stores one
C34_Witness ==
    /\ \E p \in Procs :
          /\ Given(proc[p].user_email)
          /\ \E i \in DOMAIN prefs : Given(prefs[i].email)
          /\ \E k \in MessagesOf(p) :
                sent_messages[k].to = Val(proc[p].user_email)

Refusals == {Some(NotSubscribed), Some(BelowThreshold), Some(Duplicate)}

\* C36: a send_immediate_alert call that ends in NotSubscribed,
\* BelowThreshold or Duplicate changes nothing: each of its steps leaves the
\* ledger and the provider's messages as they were, it never takes the step
\* that sends and records, and the provider holds no message of it
C36_RefusedCallsChangeNothing ==
    [][\A p \in Procs :
        /\ (proc'[p] # proc[p] /\ ~SendStep(p)) =>
              ledger' = ledger /\ sent_messages' = sent_messages
        /\ SendStep(p) => proc'[p].result \notin Refusals
        /\ (proc'[p].result \in Refusals) =>
              \A k \in DOMAIN sent_messages' :
                  sent_messages'[k].call # proc'[p].call]_vars

\* a call has ended in Duplicate: the ledger holds the one row of the send
\* before it and the provider no message of the call
C36_Witness ==
    /\ Len(ledger) = 1
    /\ sent_messages # << >>
    /\ \E p \in Procs :
          /\ proc[p].result = Some(Duplicate)
          /\ MessagesOf(p) = {}

\* the messages the digest run of this step hands the provider for the user
DigestMessagesTo(user_id) ==
    { k \in Len(sent_messages) + 1 .. Len(sent_messages') :
        sent_messages'[k].user_id = user_id /\ sent_messages'[k].call = 0 }

\* C37: a digest run leaves the ledger as it was and sends to every user
\* whose preference has the run's frequency and is not paused, whatever
\* rows the ledger holds and whether or not the same digest ran just before
C37_DigestIgnoresLedger ==
    [][digest'.runs # digest.runs =>
          /\ ledger' = ledger
          /\ \A i \in DOMAIN prefs :
                (prefs[i].frequency = digest'.frequency
                 /\ ~prefs[i].is_paused) =>
                    DigestMessagesTo(prefs[i].user_id) # {}]_vars

\* the same digest has run twice in a row and has sent both times to a user
\* the ledger holds a row of
C37_Witness ==
    /\ digest.runs = 2
    /\ digest.previous = digest.frequency
    /\ \E k \in DOMAIN digest.recipients :
          /\ \E i \in DOMAIN ledger :
                ledger[i].user_id = digest.recipients[k]
          /\ \E m \in 1 .. digest.sent_before :
                /\ sent_messages[m].call = 0
                /\ sent_messages[m].user_id = digest.recipients[k]

\* ledger row i records a failure: an error and no provider_message_id
FailureRow(i) ==
    ledger[i].provider_message_id = None /\ ledger[i].error_message # None

\* C38: a call that reaches the dedup check while the ledger holds a failure
\* row of its user and signature no older than the dedup window is answered
\* Duplicate and hands the provider nothing, although no row of the pair
\* records an accepted message
C38_FailureRowBlocksResend ==
    [][\A p \in Procs :
        ( /\ DedupStep(p)
          /\ \E i \in DOMAIN ledger :
                /\ SamePair(p, i)
                /\ FailureRow(i)
                /\ now - ledger[i].created_at <= dedup_window_hours ) =>
            /\ proc'[p].result = Some(Duplicate)
            /\ sent_messages' = sent_messages
            /\ \A k \in DOMAIN sent_messages' :
                  sent_messages'[k].call # proc'[p].call]_vars

\* a call was answered Duplicate while every ledger row of its user and
\* signature records a failure
C38_Witness ==
    \E p \in Procs :
        /\ proc[p].result = Some(Duplicate)
        /\ \E i \in DOMAIN ledger : SamePair(p, i)
        /\ \A i \in DOMAIN ledger : SamePair(p, i) => FailureRow(i)

\* C39: while the preference row that an unsubscribe request has paused
\* stays paused, no step hands the provider a message for that user
C39_NoSendAfterUnsubscribe ==
    [][\A p \in Procs :
        ( /\ proc[p].pc = "unsubscribed"
          /\ proc[p].pref_id # 0
          /\ prefs[proc[p].pref_id].is_paused
          /\ prefs'[proc[p].pref_id].is_paused ) =>
            \A k \in Len(sent_messages) + 1 .. Len(sent_messages') :
                sent_messages'[k].user_id # proc[p].user_id]_vars

====
